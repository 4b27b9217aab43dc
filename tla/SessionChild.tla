---------------------------- MODULE SessionChild ----------------------------
(***************************************************************************)
(* What a session process promises to the server process that forked it    *)
(* (src/app/server/session-process.js) and to the machine: it goes through *)
(* its life once, and it comes to an end whenever nobody needs it.  The    *)
(* children in SessionProcess and the process in SessionServer implement   *)
(* this, each with a refinement mapping of its own.                        *)
(***************************************************************************)

VARIABLES
  life,     \* the process: not forked, starting, listening, closing, gone
  joined,   \* a session WebSocket has reached it
  severed   \* the IPC channel to the server process is gone

vars == <<life, joined, severed>>

Arrows ==
  {<<"none", "starting">>, <<"starting", "up">>, <<"starting", "closing">>, <<"up", "closing">>,
   <<"closing", "gone">>, <<"starting", "gone">>, <<"up", "gone">>}

Init == life \in {"none", "starting"} /\ ~joined /\ ~severed

Next ==
  /\ life' = life \/ <<life, life'>> \in Arrows
  /\ joined' = joined \/ (joined' /\ life \in {"up", "closing"})
  /\ severed => severed'

(* It ends when the server process is gone, when no client comes, and when *)
(* it has begun to close; and it does not start for ever.                  *)
Ends ==
  /\ severed ~> life \in {"none", "gone"}
  /\ life = "starting" ~> life # "starting"
  /\ (life = "up" /\ ~joined) ~> (joined \/ life = "gone")
  /\ life = "closing" ~> life = "gone"

Spec == Init /\ [][Next]_vars /\ Ends
=============================================================================
