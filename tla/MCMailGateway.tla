---------------------------- MODULE MCMailGateway ----------------------------
(* Small instances of MailGateway: model values and bounds are in the .cfg files. *)
EXTENDS MailGateway

\* Bound: where two runs may be under way at once, the last mail is one that is accepted; the
\* others are of any kind.
MCInit == Init /\ (overlap => kind[Count] = "good")
MCSpec == MCInit /\ [][Next]_vars /\ WF_vars(\E g \in Gateways : Progress(g))
=============================================================================
