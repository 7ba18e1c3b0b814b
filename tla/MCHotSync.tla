----------------------------- MODULE MCHotSync -----------------------------
(* Values for checking HotSync with TLC. *)
EXTENDS HotSync

\* Two files that can be sent, one with a record of two fragments between others, one with
\* both blocks; and one whose second record leaves no room for its request.
MCImages == {"memo", "app", "big"}
MCInfo == [i \in MCImages |->
             CASE i = "memo" -> [app |-> 0, sort |-> 0, items |-> <<0, 2, 0>>]
               [] i = "app" -> [app |-> 1, sort |-> 2, items |-> <<1>>]
               [] i = "big" -> [app |-> 0, sort |-> 0, items |-> <<1, 4>>]]
MCResourceDbs == {"app"}
MCWakeTxs == {4}
MCLongReplies == {"ReadUserInfo"}
=============================================================================
