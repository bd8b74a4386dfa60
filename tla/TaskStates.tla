----------------------------- MODULE TaskStates -----------------------------
(***************************************************************************)
(* The task state machine of packages/task-domain: which status a task may *)
(* have, which transitions are legal, which statuses are final.            *)
(***************************************************************************)

\* TaskStatus of the protocol package, in the order of TRANSITIONS.
Status == { "pending", "claimed", "running", "waiting", "stalled",
            "rejected", "completed", "failed" }

\* TRANSITIONS as a relation: the pairs <<from, to>> the code allows.
Transitions ==
  { <<"pending", "claimed">>,
    <<"claimed", "running">>, <<"claimed", "waiting">>,
    <<"claimed", "rejected">>, <<"claimed", "stalled">>,
    <<"running", "waiting">>, <<"running", "completed">>,
    <<"running", "failed">>, <<"running", "stalled">>,
    <<"waiting", "running">>, <<"waiting", "rejected">>,
    <<"waiting", "failed">>, <<"waiting", "stalled">>,
    <<"stalled", "pending">>, <<"stalled", "failed">> }

\* TERMINAL_STATUSES: nothing happens to the task any more.
Terminal == { "rejected", "completed", "failed" }

\* canTransition, and the condition under which assertTransition returns.
canTransition(from, to) == <<from, to>> \in Transitions

\* The statuses the store's sweep and recovery select: a worker has the task.
InFlight == { "claimed", "running", "waiting" }

=============================================================================
