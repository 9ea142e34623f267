------------------------ MODULE ClientStartupProofs ------------------------
(***************************************************************************)
(* Proofs about the start of the client and its routes, for any routes,    *)
(* programs and keys.                                                      *)
(***************************************************************************)
EXTENDS ClientStartup, SequenceTheorems, TLAPS

\* load_or_generate: before the key is written the file is empty and has one
\* writer, so nobody has come up; afterwards the file is the writer's key.
IdentityInv ==
  /\ file \in Key \cup {"absent", "empty"}
  /\ step \in [Process -> {"down", "load", "create", "write", "protect", "up"}]
  /\ DOMAIN key = Process
  /\ used \subseteq Key
  /\ used \subseteq {file}
  /\ \A p \in Process : step[p] \in {"create", "write", "protect"} => key[p] \in Key
  /\ \A p \in Process : step[p] = "write" => file = "empty"
  /\ \A p \in Process : step[p] = "protect" => file = key[p]
  /\ \A p, q \in Process : step[p] = "write" /\ step[q] = "write" => p = q

LEMMA IdentityInitially == StartupInit => IdentityInv
BY DEF StartupInit, Identity!Init, IdentityInv

LEMMA IdentityStepKeeps ==
  ASSUME IdentityInv, NEW p \in Process, Identity!Step(p)
  PROVE  IdentityInv'
<1>1. CASE Identity!LookUp(p)
  BY <1>1 DEF IdentityInv, Identity!LookUp, Identity!Goes
<1>2. CASE Identity!Load(p)
  BY <1>2 DEF IdentityInv, Identity!Load, Identity!ComesUp, Identity!Goes
<1>3. CASE Identity!CreateNew(p)
  BY <1>3, KeyAssumption DEF IdentityInv, Identity!CreateNew, Identity!Goes
<1>4. CASE Identity!WriteAll(p)
  BY <1>4, KeyAssumption DEF IdentityInv, Identity!WriteAll, Identity!Goes
<1>5. CASE Identity!SetPermissions(p)
  BY <1>5 DEF IdentityInv, Identity!SetPermissions, Identity!ComesUp, Identity!Goes
<1>6. CASE Identity!Fails(p)
  BY <1>6 DEF IdentityInv, Identity!Fails, Identity!Goes
<1> QED
  BY <1>1, <1>2, <1>3, <1>4, <1>5, <1>6 DEF Identity!Step

LEMMA StartupKeepsIdentity == IdentityInv /\ [StartupNext]_startupVars => IdentityInv'
<1> SUFFICES ASSUME IdentityInv, [StartupNext]_startupVars PROVE IdentityInv'
  OBVIOUS
<1>1. CASE RouteStep
  <2>1. CASE Identity!Goes(Client, "down", NoKey) /\ UNCHANGED <<file, used>>
    BY <2>1, ClientAssumption DEF IdentityInv, Identity!Goes
  <2>2. CASE UNCHANGED <<file, step, key, used>>
    BY <2>2 DEF IdentityInv
  <2> QED
    BY <1>1, <2>1, <2>2 DEF RouteStep
<1>2. ASSUME NEW p \in Process, IdentityStep(p) PROVE IdentityInv'
  BY <1>2, IdentityStepKeeps DEF IdentityStep
<1>3. CASE UNCHANGED startupVars
  BY <1>3 DEF startupVars, IdentityInv
<1> QED
  BY <1>1, <1>2, <1>3 DEF StartupNext

\* The programs that share an identity path, and every restart of them, come up
\* with the key that is in the file (NodeIdentity::load_or_generate).
THEOREM IdentityIsKept == StartupSpec => []OneIdentity
<1>1. IdentityInv => OneIdentity
  BY DEF IdentityInv, OneIdentity, Identity!OneIdentity
<1> QED
  BY <1>1, StartupKeepsIdentity, IdentityInitially, PTL DEF StartupSpec

\* Once a key is in the file it stays there: neither a start that races with
\* another nor one after a crash replaces it.
IdentityIsStable == [][(file \in Key) => (file' = file)]_startupVars

\* No later start of any program replaces the identity (create_new, and the
\* one writer between it and write_all).
THEOREM IdentityNeverReplaced == StartupSpec => IdentityIsStable
<1>1. IdentityInv /\ [StartupNext]_startupVars => [(file \in Key) => (file' = file)]_startupVars
  <2> SUFFICES ASSUME IdentityInv, StartupNext, file \in Key PROVE file' = file
    OBVIOUS
  <2>1. file \notin {"absent", "empty"}
    BY KeyAssumption
  <2>2. ASSUME NEW p \in Process, Identity!Step(p) PROVE file' = file
    BY <2>1, <2>2 DEF IdentityInv, Identity!Step, Identity!LookUp, Identity!Load, Identity!CreateNew,
       Identity!WriteAll, Identity!SetPermissions, Identity!Fails
  <2> QED
    BY <2>2 DEF StartupNext, RouteStep, IdentityStep
<1> QED
  BY <1>1, StartupKeepsIdentity, IdentityInitially, PTL DEF StartupSpec, IdentityIsStable

-----------------------------------------------------------------------------
\* Routes are touched only by a client that has come up with the file's key: main
\* loads the identity before it installs, and the client that ends gives both up.
RoutesNeedIdentity ==
  phase \notin Stopped => step[Client] = "up" /\ file \in Key /\ key[Client] = file

\* Whoever is up has the key of the file.
UpHasKey == \A p \in Process : step[p] = "up" => file \in Key /\ key[p] = file

OrderInv ==
  /\ UpHasKey
  /\ phase \notin Stopped => step[Client] = "up"

\* What load_or_generate does on its own.
identityVars == <<file, step, key, used>>
IdentitySpec == Identity!Init /\ [][\E p \in Process : Identity!Step(p)]_identityVars

LEMMA StepKeepsUp ==
  ASSUME IdentityInv, UpHasKey, NEW p \in Process, Identity!Step(p)
  PROVE  UpHasKey'
<1>1. \A q \in Process : q # p => step'[q] = step[q] /\ key'[q] = key[q]
  BY DEF IdentityInv, Identity!Step, Identity!LookUp, Identity!Load, Identity!CreateNew, Identity!WriteAll,
         Identity!SetPermissions, Identity!Fails, Identity!ComesUp, Identity!Goes
<1>2. step'[p] = "up" => file' \in Key /\ key'[p] = file'
  <2>1. CASE Identity!Load(p)
    BY <2>1 DEF IdentityInv, Identity!Load, Identity!ComesUp, Identity!Goes
  <2>2. CASE Identity!SetPermissions(p)
    BY <2>2 DEF IdentityInv, Identity!SetPermissions, Identity!ComesUp, Identity!Goes
  <2>3. CASE Identity!LookUp(p) \/ Identity!CreateNew(p) \/ Identity!WriteAll(p) \/ Identity!Fails(p)
    BY <2>3 DEF IdentityInv, Identity!LookUp, Identity!CreateNew, Identity!WriteAll, Identity!Fails, Identity!Goes
  <2> QED
    BY <2>1, <2>2, <2>3 DEF Identity!Step
<1>3. file \in Key => file' = file
  BY KeyAssumption DEF IdentityInv, Identity!Step, Identity!LookUp, Identity!Load, Identity!CreateNew,
         Identity!WriteAll, Identity!SetPermissions, Identity!Fails
<1> QED
  BY <1>1, <1>2, <1>3 DEF UpHasKey

LEMMA StartupKeepsOrder ==
  IdentityInv /\ OrderInv /\ [StartupNext]_startupVars => OrderInv'
<1> SUFFICES ASSUME IdentityInv, OrderInv, [StartupNext]_startupVars PROVE OrderInv'
  OBVIOUS
<1>1. CASE RouteStep
  <2>1. CASE phase \notin Stopped /\ phase' \in Stopped
    <3>1. /\ file' = file /\ step'[Client] = "down"
          /\ \A q \in Process : q # Client => step'[q] = step[q] /\ key'[q] = key[q]
      BY <1>1, <2>1, ClientAssumption DEF RouteStep, Identity!Goes, IdentityInv
    <3> QED
      BY <2>1, <3>1 DEF OrderInv, UpHasKey
  <2>2. CASE ~(phase \notin Stopped /\ phase' \in Stopped)
    <3>1. UNCHANGED <<file, step, key>> /\ (phase' \notin Stopped => step[Client] = "up")
      BY <1>1, <2>2 DEF RouteStep, OrderInv
    <3> QED
      BY <3>1 DEF OrderInv, UpHasKey
  <2> QED
    BY <2>1, <2>2
<1>2. ASSUME NEW p \in Process, IdentityStep(p) PROVE OrderInv'
  <2>1. phase' = phase /\ (p = Client => phase \in Stopped) /\ UpHasKey'
    BY <1>2, StepKeepsUp DEF IdentityStep, vars, OrderInv
  <2>2. p # Client => step'[Client] = step[Client]
    BY <1>2, ClientAssumption DEF IdentityStep, IdentityInv, Identity!Step, Identity!LookUp, Identity!Load,
       Identity!CreateNew, Identity!WriteAll, Identity!SetPermissions, Identity!Fails, Identity!ComesUp, Identity!Goes
  <2> QED
    BY <2>1, <2>2 DEF OrderInv
<1>3. CASE UNCHANGED startupVars
  BY <1>3 DEF startupVars, vars, OrderInv, UpHasKey
<1> QED
  BY <1>1, <1>2, <1>3 DEF StartupNext

LEMMA OrderInitially == StartupInit => OrderInv
BY DEF StartupInit, Init, Identity!Init, OrderInv, UpHasKey, Stopped

\* No route is installed, rolled back or removed by a client without the identity
\* that is in the file (main in client/src/main.rs).
THEOREM IdentityComesFirst == StartupSpec => []RoutesNeedIdentity
<1>1. OrderInv => RoutesNeedIdentity
  BY ClientAssumption DEF OrderInv, UpHasKey, RoutesNeedIdentity
<1> QED
  BY <1>1, StartupKeepsIdentity, IdentityInitially, StartupKeepsOrder, OrderInitially, PTL DEF StartupSpec

\* The client's start composes two components and changes neither: seen from the
\* routes it is RouteInstall, seen from the identity it is load_or_generate in
\* all programs, the end of the client being one of its failures.
THEOREM StartupImplementsParts == StartupSpec => Spec /\ IdentitySpec
<1>1. StartupInit => Init /\ Identity!Init
  BY DEF StartupInit
<1>2. [StartupNext]_startupVars => [Next]_vars
  BY DEF StartupNext, RouteStep, IdentityStep, startupVars
<1>3. OrderInv /\ [StartupNext]_startupVars => [\E p \in Process : Identity!Step(p)]_identityVars
  <2> SUFFICES ASSUME OrderInv, StartupNext
               PROVE  (\E p \in Process : Identity!Step(p)) \/ UNCHANGED identityVars
    BY DEF startupVars, identityVars
  <2>1. CASE RouteStep /\ phase \notin Stopped /\ phase' \in Stopped
    <3>1. Identity!Fails(Client)
      BY <2>1 DEF RouteStep, Identity!Fails, OrderInv
    <3> QED
      BY <3>1, ClientAssumption DEF Identity!Step
  <2>2. CASE RouteStep /\ ~(phase \notin Stopped /\ phase' \in Stopped)
    BY <2>2 DEF RouteStep, identityVars
  <2>3. CASE \E p \in Process : IdentityStep(p)
    BY <2>3 DEF IdentityStep
  <2> QED
    BY <2>1, <2>2, <2>3 DEF StartupNext
<1> QED
  BY <1>1, <1>2, <1>3, StartupKeepsIdentity, IdentityInitially, StartupKeepsOrder, OrderInitially, PTL
     DEF StartupSpec, Spec, IdentitySpec

-----------------------------------------------------------------------------
Installing == {"inspect", "add", "rollback"}

\* What the rollback list says: no route twice, all of them this run's own, and
\* every owned route among them.
AddedInv ==
  /\ \A i \in 1 .. Len(added) : added[i] \in table \ (others \cup left)
  /\ \A i, j \in 1 .. Len(added) : added[i] = added[j] => i = j
  /\ \A r \in owned : \E i \in 1 .. Len(added) : added[i] = r

\* install, rollback and remove_owned: what this run has put into the table and
\* not yet taken out is owned, or its delete has failed.
RouteInv ==
  /\ added \in Seq(Route)
  /\ phase \in Installing \cup {"running", "removing"} \cup Stopped
  /\ phase \in {"inspect", "add"} => next \in 1 .. Len(Wanted)
  /\ others \cup left \subseteq table
  /\ phase \notin Stopped => owned \subseteq table \ (others \cup left)
  /\ phase \in {"inspect", "add", "running"} => table \ (others \cup left) \subseteq owned
  /\ phase \in {"rollback", "removing"} => table \ (others \cup left) \subseteq owned \cup failed
  /\ phase \in {"rolledBack", "removed"} => table \ (others \cup left) \subseteq failed
  /\ phase \in Installing => AddedInv

LEMMA RouteInitially == Init => RouteInv
BY DEF Init, RouteInv, AddedInv, Installing, Stopped

\* The loop of install: routes that are found, added, or refused.
LEMMA InstallKeeps ==
  ASSUME RouteInv,
         \/ EnterInstall \/ InspectAbsent \/ Skip \/ InspectFails \/ Add \/ AddFails
  PROVE  RouteInv'
<1> USE DEF RouteInv, Stopped, Installing
<1>1. CASE EnterInstall
  BY <1>1, WantedAssumption DEF EnterInstall, AddedInv
<1>2. CASE InspectAbsent
  BY <1>2 DEF InspectAbsent, AddedInv
<1>3. CASE Skip
  BY <1>3, WantedAssumption DEF Skip, AfterRoute, AddedInv
<1>4. CASE InspectFails
  BY <1>4 DEF InspectFails
<1>5. CASE Add
  <2>1. Wanted[next] \in Route /\ Wanted[next] \notin table
    BY <1>5, WantedAssumption DEF Add
  <2>2. /\ Len(added') = Len(added) + 1
        /\ \A i \in 1 .. Len(added) : added'[i] = added[i]
        /\ added'[Len(added) + 1] = Wanted[next]
        /\ added' \in Seq(Route)
    BY <1>5, <2>1 DEF Add
  <2>3. AddedInv'
    <3>1. AddedInv /\ Len(added) \in Nat
      BY <1>5 DEF Add
    <3>2. \A i \in 1 .. Len(added') : i \in 1 .. Len(added) \/ i = Len(added) + 1
      BY <2>2, <3>1
    <3> QED
      BY <1>5, <2>1, <2>2, <3>1, <3>2 DEF Add, AddedInv
  <2>4. next' \in Nat /\ (phase' = "inspect" => next' \in 1 .. Len(Wanted))
    BY <1>5, WantedAssumption DEF Add, AfterRoute
  <2> QED
    BY <1>5, <2>1, <2>2, <2>3, <2>4 DEF Add, AfterRoute
<1>6. CASE AddFails
  BY <1>6 DEF AddFails, AddedInv
<1> QED
  BY <1>1, <1>2, <1>3, <1>4, <1>5, <1>6

\* The rollback takes the last route off the list, deleted or not.
LEMMA RollbackKeeps ==
  ASSUME RouteInv, RollbackStep \/ RollbackDone
  PROVE  RouteInv'
<1> USE DEF RouteInv, Stopped, Installing
<1>1. CASE RollbackStep
  <2> DEFINE r == added[Len(added)]
  <2>1. phase = "rollback" /\ AddedInv /\ added # <<>>
    BY <1>1 DEF RollbackStep, ToRollBack
  <2>2. Len(added) \in Nat \ {0} /\ r \in table \ (others \cup left)
    BY <2>1 DEF AddedInv
  <2>3. /\ added' \in Seq(Route)
        /\ Len(added') = Len(added) - 1
        /\ \A i \in 1 .. Len(added) - 1 : added'[i] = added[i] /\ added'[i] # r
    <3>1. added' = SubSeq(added, 1, Len(added) - 1)
      BY <1>1 DEF RollbackStep
    <3>2. /\ added' \in Seq(Route)
          /\ Len(added') = Len(added) - 1
          /\ \A i \in 1 .. Len(added) - 1 : added'[i] = added[i]
      <4> DEFINE n == Len(added) - 1
      <4>1. 1 \in Int /\ n \in Int /\ \A i \in 1 .. n : added[i] \in Route
        BY <2>2
      <4> HIDE DEF n
      <4>2. /\ SubSeq(added, 1, n) \in Seq(Route)
            /\ Len(SubSeq(added, 1, n)) = IF 1 <= n THEN n - 1 + 1 ELSE 0
            /\ \A i \in 1 .. n - 1 + 1 : SubSeq(added, 1, n)[i] = added[1 + i - 1]
        BY <4>1, SubSeqProperties
      <4>3. n \in Nat
        BY <2>2 DEF n
      <4>4. Len(SubSeq(added, 1, n)) = n
        BY <4>2, <4>3
      <4>5. \A i \in 1 .. n : i \in 1 .. n - 1 + 1 /\ 1 + i - 1 = i
        BY <4>3
      <4>6. \A i \in 1 .. n : SubSeq(added, 1, n)[i] = added[i]
        BY <4>2, <4>5
      <4> QED
        BY <3>1, <4>2, <4>4, <4>6 DEF n
    <3>3. \A i \in 1 .. Len(added) - 1 : added[i] # r
      BY <2>1, <2>2 DEF AddedInv
    <3> QED
      BY <3>2, <3>3
  <2>4. /\ owned' = owned \ {r}
        /\ \/ table' = table \ {r} /\ failed' = failed
           \/ table' = table /\ failed' = failed \cup {r}
        /\ UNCHANGED <<others, phase, next, left>>
    BY <1>1 DEF RollbackStep, Deletes, DeleteFails
  <2>5. AddedInv'
    <3>1. \A i \in 1 .. Len(added') : added'[i] \in table' \ (others' \cup left')
      BY <2>1, <2>2, <2>3, <2>4 DEF AddedInv
    <3>2. \A i, j \in 1 .. Len(added') : added'[i] = added'[j] => i = j
      BY <2>1, <2>2, <2>3 DEF AddedInv
    <3>3. \A x \in owned' : \E i \in 1 .. Len(added') : added'[i] = x
      BY <2>1, <2>2, <2>3, <2>4 DEF AddedInv
    <3> QED
      BY <3>1, <3>2, <3>3 DEF AddedInv
  <2> QED
    BY <2>1, <2>2, <2>3, <2>4, <2>5
<1>2. CASE RollbackDone
  BY <1>2 DEF RollbackDone, ToRollBack, AddedInv
<1> QED
  BY <1>1, <1>2

\* remove_owned deletes owned routes only, and the client may end at any point.
LEMMA RemovalKeeps ==
  ASSUME RouteInv,
         \/ EventLoopEnds \/ ClientFails \/ RemoveOwnedStep
         \/ RemoveOwnedFails \/ RemoveOwnedDone
  PROVE  RouteInv'
<1> USE DEF RouteInv, Stopped, Installing
<1>1. CASE EventLoopEnds
  BY <1>1 DEF EventLoopEnds
<1>2. CASE ClientFails
  BY <1>2 DEF ClientFails
<1>3. CASE RemoveOwnedStep
  BY <1>3 DEF RemoveOwnedStep, Deletes
<1>4. CASE RemoveOwnedFails
  BY <1>4 DEF RemoveOwnedFails, DeleteFails
<1>5. CASE RemoveOwnedDone
  BY <1>5 DEF RemoveOwnedDone
<1> QED
  BY <1>1, <1>2, <1>3, <1>4, <1>5

\* Other programs add what is absent, and remove what is theirs or left over.
LEMMA OthersKeepRouteInv ==
  ASSUME RouteInv, NEW x \in Route, OtherAdds(x) \/ OtherRemoves(x)
  PROVE  RouteInv'
<1> USE DEF RouteInv, Stopped, Installing
<1>1. CASE OtherAdds(x)
  BY <1>1 DEF OtherAdds, AddedInv
<1>2. CASE OtherRemoves(x)
  BY <1>2 DEF OtherRemoves, AddedInv
<1> QED
  BY <1>1, <1>2

LEMMA RouteInvHolds == StartupSpec => []RouteInv
<1>1. RouteInv /\ [StartupNext]_startupVars => RouteInv'
  <2> SUFFICES ASSUME RouteInv, [StartupNext]_startupVars PROVE RouteInv'
    OBVIOUS
  <2>1. CASE Next
    BY <2>1, InstallKeeps, RollbackKeeps, RemovalKeeps, OthersKeepRouteInv DEF Next
  <2>2. CASE UNCHANGED vars
    BY <2>2 DEF vars, RouteInv, AddedInv
  <2> QED
    BY <2>1, <2>2 DEF StartupNext, RouteStep, IdentityStep, startupVars
<1>2. StartupInit => RouteInv
  BY RouteInitially DEF StartupInit
<1> QED
  BY <1>1, <1>2, PTL DEF StartupSpec

\* Neither the rollback of RouteManager::install nor remove_owned takes out a
\* route of another program, whenever that program added it.
THEOREM ForeignRoutesStay == StartupSpec => []OthersKept
<1>1. RouteInv => OthersKept
  BY DEF RouteInv, OthersKept
<1> QED
  BY <1>1, RouteInvHolds, PTL

\* owned_routes is what this run of the client has added, until install fails or
\* the removal begins.
THEOREM OwnershipAlwaysExact == StartupSpec => []OwnershipIsExact
<1>1. RouteInv => OwnershipIsExact
  BY DEF RouteInv, OwnershipIsExact, Stopped
<1> QED
  BY <1>1, RouteInvHolds, PTL

\* A rollback or remove_owned that has come to its end leaves only routes whose
\* delete failed, of what this run has added.
THEOREM CleanupAlwaysComplete == StartupSpec => []CleanupIsComplete
<1>1. RouteInv => CleanupIsComplete
  BY DEF RouteInv, CleanupIsComplete
<1> QED
  BY <1>1, RouteInvHolds, PTL
=============================================================================
