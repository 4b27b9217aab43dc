---------------------------- MODULE MC_AgentRun ----------------------------
(***************************************************************************)
(* Instances of AgentRun for TLC: the calls that a model makes and the     *)
(* replies that are made of them.                                          *)
(***************************************************************************)
EXTENDS AgentRun

Call(name, action, risk, deletes, valid) ==
  [name |-> name, action |-> action, risk |-> risk, deletes |-> deletes, valid |-> valid]

Look == Call("send_terminal_command", "look", "low", FALSE, TRUE)
Change == Call("send_terminal_command", "change", "high", FALSE, TRUE)
Wipe == Call("send_terminal_command", "wipe", "high", TRUE, TRUE)
Job1 == Call("run_background_command", "build", "low", FALSE, TRUE)
Job2 == Call("run_background_command", "serve", "low", FALSE, TRUE)
Status == Call("get_background_task_status", "status", "low", FALSE, TRUE)
List == Call("sftp_list", "list", "low", FALSE, TRUE)
Malformed == Call("send_terminal_command", "look", "low", FALSE, FALSE)

MixedCalls == {Look, Change, Wipe, Job1, Status, List, Malformed}
MixedReplies ==
  {<< >>, <<List>>, <<Change, Look>>, <<Malformed, Wipe>>, <<Job1, Status>>}

TwoJobCalls == {Job1, Job2}
TwoJobReplies == {<<Job1>>, <<Job2>>}

(* A question about an attached file, and a change made from one.          *)
Talking == [kind |-> "conversation", attached |-> TRUE]
Changing == [kind |-> "mutation", attached |-> TRUE]
Finding == [kind |-> "terminal", attached |-> FALSE]

MixedTasks == {Talking, Changing}
OneTask == {Finding}
=============================================================================
