---------------------------- MODULE RouteInstall ----------------------------
(***************************************************************************)
(* The client's operating system routes (network/src/os_routing.rs, used   *)
(* by client/src/main.rs): RouteManager::install and WindowsRouteManager,  *)
(* one netsh call per step, so that other programs change the same table   *)
(* between two calls and any call may fail.  A route stands for a prefix   *)
(* and its interface.  inspect looks for the prefix as text in the lines   *)
(* netsh shows, so that 1.0.0.0/8 is also found in the line of 11.0.0.0/8. *)
(***************************************************************************)
EXTENDS Integers, Sequences, FiniteSets

CONSTANTS
  Route,     \* routes somebody may put into the table
  Wanted,    \* the policy's routes, in their configured order
  Foreign,   \* routes in the table before the client starts
  Occurs,    \* <<r, s>>: the text of r occurs in the line of s
  Faults,    \* netsh calls and the running client fail
  Others     \* other programs add and remove routes meanwhile

ASSUME WantedAssumption ==
  /\ Wanted \in Seq(Route) /\ Wanted # <<>>
  /\ \A i, j \in DOMAIN Wanted : Wanted[i] = Wanted[j] => i = j
ASSUME TableAssumption ==
  /\ Foreign \subseteq Route
  /\ Occurs \subseteq Route \X Route
  /\ \A r \in Route : <<r, r>> \in Occurs

VARIABLES
  table,    \* the operating system's routes
  others,   \* history: those of them that other programs put there
  owned,    \* owned_routes
  phase,    \* where install, remove_owned or the client around them stands
  next,     \* the route of Wanted that install has come to
  added,    \* install's list of routes added so far
  failed,   \* history: routes a netsh delete of ours has left behind
  left      \* history: routes of earlier runs of the client

vars == <<table, others, owned, phase, next, added, failed, left>>

Stopped == {"down", "removed", "rolledBack", "installFailed", "ended"}

Init ==
  /\ table = Foreign /\ others = Foreign /\ left = {}
  /\ owned = {} /\ added = <<>> /\ failed = {}
  /\ phase = "down" /\ next = 1

\* The client is started, again after whatever its last run has left, and
\* enters install with a manager that owns nothing; routes() has rejected
\* duplicates.
EnterInstall ==
  /\ phase \in Stopped
  /\ phase' = "inspect" /\ next' = 1
  /\ owned' = {} /\ added' = <<>> /\ failed' = {}
  /\ left' = table \ others
  /\ UNCHANGED <<table, others>>

-----------------------------------------------------------------------------
\* The loop's next iteration, or the end of install.
AfterRoute(i) == IF i = Len(Wanted) THEN "running" ELSE "inspect"

Found(r) == \E s \in table : <<r, s>> \in Occurs

InspectAbsent ==
  /\ phase = "inspect"
  /\ ~Found(Wanted[next])
  /\ phase' = "add"
  /\ UNCHANGED <<table, others, owned, next, added, failed, left>>

\* Variant: a route that is there already is recorded as the client's.
SkipAndOwn ==
  /\ phase = "inspect"
  /\ Found(Wanted[next])
  /\ owned' = owned \cup {Wanted[next]}
  /\ phase' = AfterRoute(next)
  /\ next' = next + 1
  /\ UNCHANGED <<table, others, added, failed, left>>

Skip ==
  /\ phase = "inspect"
  /\ Found(Wanted[next])
  /\ phase' = AfterRoute(next)
  /\ next' = next + 1
  /\ UNCHANGED <<table, others, owned, added, failed, left>>

\* `inspect(route)?' leaves install at once.
InspectFails ==
  /\ Faults
  /\ phase = "inspect"
  /\ phase' = "installFailed"
  /\ UNCHANGED <<table, others, owned, next, added, failed, left>>

\* Variant: the added route is not recorded.
AddUnrecorded ==
  /\ phase = "add"
  /\ Wanted[next] \notin table
  /\ table' = table \cup {Wanted[next]}
  /\ added' = Append(added, Wanted[next])
  /\ phase' = AfterRoute(next)
  /\ next' = next + 1
  /\ UNCHANGED <<others, owned, failed, left>>

Add ==
  /\ phase = "add"
  /\ Wanted[next] \notin table
  /\ table' = table \cup {Wanted[next]}
  /\ owned' = owned \cup {Wanted[next]}
  /\ added' = Append(added, Wanted[next])
  /\ phase' = AfterRoute(next)
  /\ next' = next + 1
  /\ UNCHANGED <<others, failed, left>>

\* netsh refuses a route that is there by now, or fails.
AddFails ==
  /\ phase = "add"
  /\ Faults \/ Wanted[next] \in table
  /\ phase' = "rollback"
  /\ UNCHANGED <<table, others, owned, next, added, failed, left>>

-----------------------------------------------------------------------------
\* remove: the route is disowned first and deleted then.
Deletes(r) ==
  /\ owned' = owned \ {r}
  /\ r \in table
  /\ table' = table \ {r}
  /\ UNCHANGED failed

DeleteFails(r) ==
  /\ owned' = owned \ {r}
  /\ Faults \/ r \notin table
  /\ failed' = failed \cup {r}
  /\ UNCHANGED table

\* Variant: the first route that was added is left out.
ToRollBackOffByOne == SubSeq(added, 2, Len(added))

ToRollBack == added

\* The routes are removed in reverse order; errors are ignored.
RollbackStep ==
  /\ phase = "rollback"
  /\ ToRollBack # <<>>
  /\ LET r == added[Len(added)] IN Deletes(r) \/ DeleteFails(r)
  /\ added' = SubSeq(added, 1, Len(added) - 1)
  /\ UNCHANGED <<others, phase, next, left>>

RollbackDone ==
  /\ phase = "rollback"
  /\ ToRollBack = <<>>
  /\ phase' = "rolledBack"
  /\ UNCHANGED <<table, others, owned, next, added, failed, left>>

-----------------------------------------------------------------------------
(* The client around it *)

\* The event loop ends, and remove_owned starts.
EventLoopEnds ==
  /\ phase = "running"
  /\ phase' = "removing"
  /\ UNCHANGED <<table, others, owned, next, added, failed, left>>

\* Any other error of main leaves it with `?', past remove_owned, and the
\* process may be killed between any two netsh calls.
ClientFails ==
  /\ Faults
  /\ phase \notin Stopped
  /\ phase' = "ended"
  /\ UNCHANGED <<table, others, owned, next, added, failed, left>>

RemoveOwnedStep ==
  /\ phase = "removing"
  /\ \E r \in owned : Deletes(r)
  /\ UNCHANGED <<others, phase, next, added, left>>

\* `remove(&route)?' gives up at the first failure.
RemoveOwnedFails ==
  /\ phase = "removing"
  /\ \E r \in owned : DeleteFails(r)
  /\ phase' = "ended"
  /\ UNCHANGED <<others, next, added, left>>

RemoveOwnedDone ==
  /\ phase = "removing"
  /\ owned = {}
  /\ phase' = "removed"
  /\ UNCHANGED <<table, others, owned, next, added, failed, left>>

\* Other programs add routes, and remove those that are not this client's.
OtherAdds(r) ==
  /\ Others
  /\ r \notin table
  /\ table' = table \cup {r}
  /\ others' = others \cup {r}
  /\ UNCHANGED <<owned, phase, next, added, failed, left>>

OtherRemoves(r) ==
  /\ Others
  /\ r \in others \cup left
  /\ table' = table \ {r}
  /\ others' = others \ {r}
  /\ left' = left \ {r}
  /\ UNCHANGED <<owned, phase, next, added, failed>>

Next ==
  \/ EnterInstall
  \/ InspectAbsent \/ Skip \/ InspectFails \/ Add \/ AddFails
  \/ RollbackStep \/ RollbackDone
  \/ EventLoopEnds \/ ClientFails
  \/ RemoveOwnedStep \/ RemoveOwnedFails \/ RemoveOwnedDone
  \/ \E r \in Route : OtherAdds(r) \/ OtherRemoves(r)

Spec == Init /\ [][Next]_vars

-----------------------------------------------------------------------------
\* Routes of other programs stay: neither the rollback of a failed install nor
\* remove_owned takes one out, even when another program has added a route
\* between inspect and add.
OthersKept == others \subseteq table

\* While install has not failed, owned_routes is exactly what the client has
\* put into the table since it was started: nothing of it is forgotten and
\* nothing else claimed, not even what an earlier run has left.
OwnershipIsExact ==
  phase \in {"inspect", "add", "running"} => owned = table \ (others \cup left)

\* When a rollback or remove_owned has come to its end, only routes whose
\* delete has failed are left of what
\* this run of the client has added.
CleanupIsComplete ==
  phase \in {"rolledBack", "removed"} => table \ (others \cup left) \subseteq failed

=============================================================================
