--------------------------- MODULE VpnAppProofs -----------------------------
(***************************************************************************)
(* Proofs about the Android application, for any number of connects.       *)
(***************************************************************************)
EXTENDS VpnApp, FiniteSetTheorems, WellFoundedInduction, TLAPS

LEMMA LeastElement ==
  ASSUME NEW T \in SUBSET Nat, T # {}
  PROVE  \E x \in T : \A y \in T : x <= y
<1> DEFINE R == OpToRel(<, Nat)
<1>1. IsWellFoundedOn(R, Nat)
  BY NatLessThanWellFounded
<1>2. PICK x \in T : \A y \in T : ~(<<y, x>> \in R)
  <2> HIDE DEF R
  <2> QED BY <1>1, WFMin
<1>3. \A y \in T : ~(y < x)
  BY <1>2 DEF OpToRel
<1> QED
  BY <1>3

\* A descriptor that is handed out was free, and is not None.
LEMMA HandedOutIsFree ==
  ASSUME NEW fds, IsFiniteSet(fds)
  PROVE  LowestFree(fds) \in Nat \ {None} /\ LowestFree(fds) \notin fds
<1> DEFINE n == Cardinality(fds)
           T == (1 .. n + 1) \ fds
<1>1. n \in Nat
  BY FS_CardinalityType
<1> HIDE DEF n
<1>2. IsFiniteSet(1 .. n + 1) /\ Cardinality(1 .. n + 1) = n + 1
  BY <1>1, FS_Interval
<1>3. ~((1 .. n + 1) \subseteq fds)
  <2> SUFFICES ASSUME (1 .. n + 1) \subseteq fds PROVE FALSE
    OBVIOUS
  <2>1. Cardinality(1 .. n + 1) <= n
    BY FS_Subset DEF n
  <2> QED
    BY <1>1, <1>2, <2>1
<1>4. PICK x \in T : \A y \in T : x <= y
  <2>1. T \in SUBSET Nat /\ T # {}
    BY <1>1, <1>3
  <2> HIDE DEF T
  <2> QED BY <2>1, LeastElement
<1>5. x \in 1 .. n + 1 /\ x \notin fds /\ \A y \in 1 .. x - 1 : y \in fds
  BY <1>1, <1>4
<1>6. \E fd \in 1 .. n + 1 : fd \notin fds /\ \A y \in 1 .. fd - 1 : y \in fds
  BY <1>5
<1>7. LowestFree(fds) \in 1 .. n + 1 /\ LowestFree(fds) \notin fds
  BY <1>6 DEF LowestFree, n
<1> QED
  BY <1>1, <1>7 DEF None

-----------------------------------------------------------------------------
\* A core's descriptors are open and its own: no two readers or writers have the
\* same one, and none has the service's.
CoreOwns(fd) == fd # None => fd \in DOMAIN open /\ open[fd].owner = "core"

DescriptorInv ==
  /\ IsFiniteSet(DOMAIN open)
  /\ \A c \in DOMAIN core : CoreOwns(core[c].read) /\ CoreOwns(core[c].write)
  /\ \A c, d \in DOMAIN core :
       /\ core[c].read # None /\ core[c].read = core[d].read => c = d
       /\ core[c].write # None /\ core[c].write = core[d].write => c = d
       /\ core[c].read # None => core[c].read # core[d].write
  /\ AndroidKeepsItsDescriptor

CoreRecord ==
  [phase : {"spawned", "ready", "failed", "running", "ended"}, fd : Nat, read : Nat, write : Nat]

CoreType == core \in Seq(CoreRecord)

AppInv == DescriptorInv /\ CoreType /\ tun \in Nat /\ starting \in Nat

LEMMA AppInitially == Init => AppInv
<1> SUFFICES ASSUME Init PROVE AppInv
  OBVIOUS
<1>1. DOMAIN open = {} /\ IsFiniteSet(DOMAIN open)
  BY FS_EmptySet DEF Init
<1> QED
  BY <1>1 DEF Init, AppInv, DescriptorInv, CoreType, AndroidKeepsItsDescriptor, None

\* The screen and the activity touch no descriptor.
LEMMA NoDescriptorTouched ==
  ASSUME AppInv, UNCHANGED <<open, core, tun>>, starting' \in Nat
  PROVE  AppInv'
BY DEF AppInv, DescriptorInv, CoreOwns, CoreType, AndroidKeepsItsDescriptor

LEMMA EstablishKeeps == ASSUME AppInv, Establish PROVE AppInv'
<1>1. core' = core
  BY DEF Establish, coreVars
<1>2. CASE prepared
  <2> DEFINE l == Lowest
  <2>1. l \in Nat \ {None} /\ l \notin DOMAIN open
    BY HandedOutIsFree DEF AppInv, DescriptorInv, Lowest
  <2>2. tun' = l /\ starting' = l /\ open' = Opened(l, established + 1, "service")
    BY <1>2 DEF Establish
  <2> HIDE DEF l
  <2>3. /\ DOMAIN open' = DOMAIN open \cup {l}
        /\ open'[l].owner = "service"
        /\ \A x \in DOMAIN open : open'[x] = open[x]
    BY <2>1, <2>2 DEF Opened
  <2>4. IsFiniteSet(DOMAIN open')
    BY <2>3, FS_AddElement DEF AppInv, DescriptorInv
  <2> QED
    BY <1>1, <2>1, <2>2, <2>3, <2>4
    DEF AppInv, DescriptorInv, CoreOwns, CoreType, AndroidKeepsItsDescriptor
<1>3. CASE ~prepared
  BY <1>1, <1>3 DEF Establish, AppInv, DescriptorInv, CoreOwns, CoreType,
                    AndroidKeepsItsDescriptor, None
<1> QED
  BY <1>2, <1>3

LEMMA StartCoreKeeps == ASSUME AppInv, StartCore PROVE AppInv'
<1>1. UNCHANGED <<open, tun>> /\ starting' \in Nat
  BY DEF StartCore, None
<1>2. CASE running
  BY <1>1, <1>2, NoDescriptorTouched DEF StartCore
<1>3. CASE ~running
  <2> DEFINE new == [phase |-> "spawned", fd |-> starting, read |-> None, write |-> None]
  <2>1. core' = Append(core, new)
    BY <1>3 DEF StartCore
  <2>2. new \in CoreRecord
    BY DEF AppInv, None, CoreRecord
  <2>3. CoreType'
    BY <2>1, <2>2 DEF AppInv, CoreType
  <2>4. \A c \in DOMAIN core' : c \in DOMAIN core \/ core'[c] = new
    BY <2>1, <2>2 DEF AppInv, CoreType
  <2>5. \A c \in DOMAIN core : c \in DOMAIN core' /\ core'[c] = core[c]
    BY <2>1, <2>2 DEF AppInv, CoreType
  <2> QED
    BY <1>1, <2>3, <2>4, <2>5 DEF AppInv, DescriptorInv, CoreOwns, AndroidKeepsItsDescriptor
<1> QED
  BY <1>2, <1>3

\* stopVpn and the finalizer close the service's descriptors only.
LEMMA ServiceClosesItsOwn ==
  ASSUME AppInv, NEW fd, fd # None => fd \in DOMAIN open /\ open[fd].owner = "service",
         open' = Closed({fd}), core' = core, starting' \in Nat,
         tun' = None \/ (tun' = tun /\ tun # fd)
  PROVE  AppInv'
<1>1. /\ DOMAIN open' = DOMAIN open \ {fd}
      /\ \A x \in DOMAIN open \ {fd} : open'[x] = open[x]
  BY DEF Closed
<1>2. IsFiniteSet(DOMAIN open')
  BY <1>1, FS_RemoveElement DEF AppInv, DescriptorInv
<1>3. \A c \in DOMAIN core : /\ core[c].read # None => core[c].read # fd
                            /\ core[c].write # None => core[c].write # fd
  BY DEF AppInv, DescriptorInv, CoreOwns
<1>4. \A c \in DOMAIN core : CoreOwns(core[c].read)' /\ CoreOwns(core[c].write)'
  BY <1>1, <1>3 DEF AppInv, DescriptorInv, CoreOwns
<1>5. AndroidKeepsItsDescriptor'
  BY <1>1 DEF AppInv, DescriptorInv, AndroidKeepsItsDescriptor
<1>6. tun' \in Nat
  BY DEF AppInv, None
<1> QED
  BY <1>2, <1>4, <1>5, <1>6 DEF AppInv, DescriptorInv, CoreType

LEMMA CoreFields ==
  ASSUME CoreType, NEW c \in DOMAIN core
  PROVE  /\ core[c].read \in Nat /\ core[c].write \in Nat
         /\ core[c].phase \in {"spawned", "ready", "failed", "running", "ended"}
<1>1. core[c] \in CoreRecord
  BY DEF CoreType
<1> QED
  BY <1>1 DEF CoreRecord

\* Effect of Runs on the core it names, and on the others.
LEMMA RunsEffect ==
  ASSUME CoreType, NEW c \in DOMAIN core, NEW read \in Nat, NEW write \in Nat,
         NEW phase \in {"spawned", "ready", "failed", "running", "ended"},
         Runs(c, phase, read, write)
  PROVE  /\ CoreType'
         /\ DOMAIN core' = DOMAIN core
         /\ core'[c].phase = phase /\ core'[c].read = read /\ core'[c].write = write
         /\ \A d \in DOMAIN core : d # c => core'[d] = core[d]
<1> DEFINE new == [core[c] EXCEPT !.phase = phase, !.read = read, !.write = write]
<1>1. core \in Seq(CoreRecord) /\ core[c] \in CoreRecord
  BY DEF CoreType
<1>2. new \in CoreRecord /\ new.phase = phase /\ new.read = read /\ new.write = write
  BY <1>1 DEF CoreRecord
<1>3. core' = [core EXCEPT ![c] = new]
  BY DEF Runs
<1> HIDE DEF new
<1>4. core' \in Seq(CoreRecord) /\ DOMAIN core' = DOMAIN core /\ core'[c] = new
  BY <1>1, <1>2, <1>3
<1>5. \A d \in DOMAIN core : d # c => core'[d] = core[d]
  BY <1>1, <1>3
<1> QED
  BY <1>2, <1>4, <1>5 DEF CoreType

LEMMA DuplicateKeeps ==
  ASSUME AppInv, NEW c \in DOMAIN core, Duplicate(c)
  PROVE  AppInv'
<1> DEFINE l == Lowest
           k == SecondLowest
<1>1. l \in Nat \ {None} /\ l \notin DOMAIN open /\ IsFiniteSet(DOMAIN open \cup {l})
  BY HandedOutIsFree, FS_AddElement DEF AppInv, DescriptorInv, Lowest
<1>2. k \in Nat \ {None} /\ k \notin DOMAIN open \cup {l}
  BY <1>1, HandedOutIsFree DEF SecondLowest
<1>3. /\ UNCHANGED <<tun, starting>>
      /\ DOMAIN open' = DOMAIN open \cup {l, k}
      /\ \A x \in DOMAIN open : open'[x] = open[x]
      /\ \A x \in {l, k} : open'[x].owner = "core"
      /\ Runs(c, "ready", l, k)
  BY <1>1, <1>2 DEF Duplicate, serviceVars
<1> HIDE DEF l, k
<1>4. /\ CoreType' /\ DOMAIN core' = DOMAIN core
      /\ core'[c].read = l /\ core'[c].write = k
      /\ \A d \in DOMAIN core : d # c => core'[d] = core[d]
  BY <1>1, <1>2, <1>3, RunsEffect DEF AppInv
<1>5. IsFiniteSet(DOMAIN open')
  <2>1. DOMAIN open' = (DOMAIN open \cup {l}) \cup {k}
    BY <1>3
  <2> QED
    BY <1>1, <2>1, FS_AddElement
<1>6. \A d \in DOMAIN core' : CoreOwns(core[d].read)' /\ CoreOwns(core[d].write)'
  BY <1>3, <1>4 DEF AppInv, DescriptorInv, CoreOwns
<1>7. \A d \in DOMAIN core : d # c => core[d].read \notin {l, k} /\ core[d].write \notin {l, k}
  BY <1>1, <1>2 DEF AppInv, DescriptorInv, CoreOwns
<1>8. \A d, e \in DOMAIN core' :
       /\ core'[d].read # None /\ core'[d].read = core'[e].read => d = e
       /\ core'[d].write # None /\ core'[d].write = core'[e].write => d = e
       /\ core'[d].read # None => core'[d].read # core'[e].write
  BY <1>1, <1>2, <1>4, <1>7 DEF AppInv, DescriptorInv
<1>9. AndroidKeepsItsDescriptor'
  BY <1>3 DEF AppInv, DescriptorInv, AndroidKeepsItsDescriptor
<1> QED
  BY <1>3, <1>4, <1>5, <1>6, <1>8, <1>9 DEF AppInv, DescriptorInv

\* A failed dup leaves the descriptor of the other one to nobody.
LEMMA DuplicateFailsKeeps ==
  ASSUME AppInv, NEW c \in DOMAIN core, DuplicateFails(c)
  PROVE  AppInv'
<1> DEFINE l == Lowest
<1>1. l \in Nat \ {None} /\ l \notin DOMAIN open /\ IsFiniteSet(DOMAIN open \cup {l})
  BY HandedOutIsFree, FS_AddElement DEF AppInv, DescriptorInv, Lowest
<1>2. UNCHANGED <<tun, starting>> /\ Runs(c, "failed", None, None)
  BY DEF DuplicateFails, serviceVars
<1>3. \/ open' = open
      \/ open' = Opened(l, open[core[c].fd].tun, "nobody")
  BY DEF DuplicateFails
<1> HIDE DEF l
<1>4. /\ CoreType' /\ DOMAIN core' = DOMAIN core
      /\ core'[c].read = None /\ core'[c].write = None
      /\ \A d \in DOMAIN core : d # c => core'[d] = core[d]
  BY <1>2, RunsEffect DEF AppInv, None
<1>5. /\ IsFiniteSet(DOMAIN open')
      /\ \A x \in DOMAIN open : x \in DOMAIN open' /\ open'[x] = open[x]
  BY <1>1, <1>3 DEF Opened, AppInv, DescriptorInv
<1>6. \A d \in DOMAIN core' : CoreOwns(core[d].read)' /\ CoreOwns(core[d].write)'
  BY <1>4, <1>5 DEF AppInv, DescriptorInv, CoreOwns
<1>7. \A d, e \in DOMAIN core' :
       /\ core'[d].read # None /\ core'[d].read = core'[e].read => d = e
       /\ core'[d].write # None /\ core'[d].write = core'[e].write => d = e
       /\ core'[d].read # None => core'[d].read # core'[e].write
  BY <1>4 DEF AppInv, DescriptorInv
<1>8. AndroidKeepsItsDescriptor'
  BY <1>2, <1>5 DEF AppInv, DescriptorInv, AndroidKeepsItsDescriptor
<1> QED
  BY <1>2, <1>4, <1>5, <1>6, <1>7, <1>8 DEF AppInv, DescriptorInv

LEMMA RunClientKeeps ==
  ASSUME AppInv, NEW c \in DOMAIN core, RunClient(c)
  PROVE  AppInv'
<1>1. UNCHANGED <<tun, starting, open>>
  BY DEF RunClient, serviceVars
<1>2. core[c].read \in Nat /\ core[c].write \in Nat
  BY CoreFields DEF AppInv
<1>3. PICK phase \in {"running", "ended"} : Runs(c, phase, core[c].read, core[c].write)
  BY DEF RunClient
<1>4. /\ CoreType' /\ DOMAIN core' = DOMAIN core
      /\ \A d \in DOMAIN core : core'[d].read = core[d].read /\ core'[d].write = core[d].write
  BY <1>2, <1>3, RunsEffect DEF AppInv
<1>5. \A d \in DOMAIN core' : CoreOwns(core[d].read)' /\ CoreOwns(core[d].write)'
  BY <1>1, <1>4 DEF AppInv, DescriptorInv, CoreOwns
<1> QED
  BY <1>1, <1>4, <1>5 DEF AppInv, DescriptorInv, AndroidKeepsItsDescriptor

\* A thread that ends closes its own descriptor, which no other thread and not
\* the service has.
LEMMA ThreadEndsKeeps ==
  ASSUME AppInv, NEW c \in DOMAIN core, ReaderEnds(c) \/ WriterEnds(c)
  PROVE  AppInv'
<1>1. UNCHANGED <<tun, starting>>
  BY DEF ReaderEnds, WriterEnds, serviceVars
<1>2. /\ core[c].read \in Nat /\ core[c].write \in Nat
      /\ core[c].phase \in {"spawned", "ready", "failed", "running", "ended"}
  BY CoreFields DEF AppInv
<1>3. PICK fd \in {core[c].read, core[c].write} :
        /\ fd # None /\ open' = Closed({fd})
        /\ \/ fd = core[c].read /\ Runs(c, core[c].phase, None, core[c].write)
           \/ fd = core[c].write /\ Runs(c, "ended", core[c].read, None)
  BY DEF ReaderEnds, WriterEnds
<1>4. /\ DOMAIN open' = DOMAIN open \ {fd}
      /\ \A x \in DOMAIN open \ {fd} : open'[x] = open[x]
  BY <1>3 DEF Closed
<1>5. /\ CoreType' /\ DOMAIN core' = DOMAIN core
      /\ \A d \in DOMAIN core : d # c => core'[d] = core[d]
      /\ \/ fd = core[c].read /\ core'[c].read = None /\ core'[c].write = core[c].write
         \/ fd = core[c].write /\ core'[c].read = core[c].read /\ core'[c].write = None
  BY <1>2, <1>3, RunsEffect DEF AppInv, None
<1>6. IsFiniteSet(DOMAIN open')
  BY <1>4, FS_RemoveElement DEF AppInv, DescriptorInv
<1>7. \A d \in DOMAIN core : /\ core'[d].read \in {None, core[d].read} \ {fd}
                            /\ core'[d].write \in {None, core[d].write} \ {fd}
  BY <1>3, <1>5 DEF AppInv, DescriptorInv
<1>8. \A d \in DOMAIN core' : CoreOwns(core[d].read)' /\ CoreOwns(core[d].write)'
  BY <1>4, <1>5, <1>7 DEF AppInv, DescriptorInv, CoreOwns
<1>9. \A d, e \in DOMAIN core' :
       /\ core'[d].read # None /\ core'[d].read = core'[e].read => d = e
       /\ core'[d].write # None /\ core'[d].write = core'[e].write => d = e
       /\ core'[d].read # None => core'[d].read # core'[e].write
  BY <1>5, <1>7 DEF AppInv, DescriptorInv
<1>10. AndroidKeepsItsDescriptor'
  BY <1>1, <1>3, <1>4 DEF AppInv, DescriptorInv, AndroidKeepsItsDescriptor, CoreOwns
<1> QED
  BY <1>1, <1>5, <1>6, <1>8, <1>9, <1>10 DEF AppInv, DescriptorInv

LEMMA AppStep == AppInv /\ [Next]_vars => AppInv'
<1> SUFFICES ASSUME AppInv, [Next]_vars PROVE AppInv'
  OBVIOUS
<1>1. ASSUME UNCHANGED <<open, core, tun, starting>> PROVE AppInv'
  BY <1>1, NoDescriptorTouched DEF AppInv
<1>2. CASE TapConnect \/ TapDisconnect \/ BridgeConnect \/ ConnectEnds \/ PollAnswered
  BY <1>1, <1>2 DEF TapConnect, TapDisconnect, BridgeConnect, ConnectEnds, PollAnswered,
                    serviceVars, coreVars
<1>3. CASE (\E i \in DOMAIN polls : PollApplied(i)) \/ DialogAnswered \/ UNCHANGED vars
  BY <1>1, <1>3 DEF PollApplied, DialogAnswered, serviceVars, coreVars, vars
<1>4. CASE ServiceStop \/ Revoke
  <2>1. /\ open' = Closed({tun}) /\ tun' = None /\ core' = core /\ starting' = starting
    BY <1>4 DEF ServiceStop, Revoke, StopsCore
  <2> QED
    BY <2>1, ServiceClosesItsOwn DEF AppInv, DescriptorInv, AndroidKeepsItsDescriptor
<1>5. CASE Collect
  <2>1. PICK fd \in DOMAIN open : /\ open[fd].owner = "service" /\ fd \notin {tun, starting}
                                  /\ open' = Closed({fd})
    BY <1>5 DEF Collect
  <2>2. UNCHANGED <<core, tun, starting>>
    BY <1>5 DEF Collect, serviceVars, coreVars
  <2> QED
    BY <2>1, <2>2, ServiceClosesItsOwn DEF AppInv
<1>6. ASSUME NEW c \in DOMAIN core, CoreStep(c) \/ ReaderEnds(c) PROVE AppInv'
  BY <1>6, DuplicateKeeps, DuplicateFailsKeeps, RunClientKeeps, ThreadEndsKeeps DEF CoreStep
<1> QED
  BY <1>2, <1>3, <1>4, <1>5, <1>6, EstablishKeeps, StartCoreKeeps DEF Next

\* The service's descriptor stays open and the service's, however the core
\* threads of this and of earlier starts run (lib.rs duplicates before it wraps a
\* descriptor into a file).
THEOREM DescriptorStaysAndroids == Spec => []AndroidKeepsItsDescriptor
<1>1. AppInv => AndroidKeepsItsDescriptor
  BY DEF AppInv, DescriptorInv
<1> QED
  BY <1>1, AppStep, AppInitially, PTL DEF Spec

-----------------------------------------------------------------------------
\* An open descriptor has somebody who will close it: the service or the
\* finalizer, or a reader or writer that is still there.  Only the first of two
\* duplicates whose second failed is nobody's.
Held(fd) ==
  \/ open[fd].owner = "service"
  \/ open[fd].owner = "core" /\ \E c \in DOMAIN core : fd \in {core[c].read, core[c].write} \ {None}
  \/ open[fd].owner = "nobody" /\ leaked

DescriptorsAreHeld == \A fd \in DOMAIN open : Held(fd)

\* run_client never gets as far as running the client.
ClientNeverRuns == \A c \in DOMAIN core : core[c].phase # "running"

\* A core that has not duplicated its descriptor yet has no threads, so that the
\* duplicates replace nothing.
SpawnedHasNone ==
  \A c \in DOMAIN core : core[c].phase = "spawned" => core[c].read = None /\ core[c].write = None

HolderInv == DescriptorsAreHeld /\ SpawnedHasNone /\ ClientNeverRuns

LEMMA NothingReleased ==
  ASSUME HolderInv, UNCHANGED <<open, core, leaked>>
  PROVE  HolderInv'
BY DEF HolderInv, DescriptorsAreHeld, Held, SpawnedHasNone, ClientNeverRuns

LEMMA EstablishHolds == ASSUME AppInv, HolderInv, Establish PROVE HolderInv'
<1>1. UNCHANGED <<core, leaked>>
  BY DEF Establish, coreVars
<1>2. CASE prepared
  <2> DEFINE l == Lowest
  <2>1. open' = Opened(l, established + 1, "service")
    BY <1>2 DEF Establish
  <2> HIDE DEF l
  <2>2. /\ DOMAIN open' = DOMAIN open \cup {l} /\ open'[l].owner = "service"
        /\ \A x \in DOMAIN open \ {l} : open'[x] = open[x]
    BY <2>1 DEF Opened
  <2>3. DescriptorsAreHeld'
    BY <1>1, <2>2 DEF HolderInv, DescriptorsAreHeld, Held
  <2> QED
    BY <1>1, <2>3 DEF HolderInv, SpawnedHasNone, ClientNeverRuns
<1>3. CASE ~prepared
  BY <1>1, <1>3, NothingReleased DEF Establish
<1> QED
  BY <1>2, <1>3

LEMMA StartCoreHolds == ASSUME AppInv, HolderInv, StartCore PROVE HolderInv'
<1>1. UNCHANGED <<open, leaked>>
  BY DEF StartCore
<1>2. CASE running
  BY <1>1, <1>2, NothingReleased DEF StartCore
<1>3. CASE ~running
  <2> DEFINE new == [phase |-> "spawned", fd |-> starting, read |-> None, write |-> None]
  <2>1. core' = Append(core, new)
    BY <1>3 DEF StartCore
  <2>2. \A c \in DOMAIN core' : (c \in DOMAIN core /\ core'[c] = core[c]) \/ core'[c] = new
    BY <2>1 DEF AppInv, CoreType
  <2>3. \A c \in DOMAIN core : c \in DOMAIN core' /\ core'[c] = core[c]
    BY <2>1 DEF AppInv, CoreType
  <2>4. DescriptorsAreHeld'
    BY <1>1, <2>3 DEF HolderInv, DescriptorsAreHeld, Held
  <2>5. SpawnedHasNone' /\ ClientNeverRuns'
    BY <2>2 DEF HolderInv, SpawnedHasNone, ClientNeverRuns
  <2> QED
    BY <2>4, <2>5 DEF HolderInv
<1> QED
  BY <1>2, <1>3

\* stopVpn and the finalizer.
LEMMA CloseHolds ==
  ASSUME HolderInv, NEW fd, open' = Closed({fd}), UNCHANGED <<core, leaked>>
  PROVE  HolderInv'
<1>1. DOMAIN open' \subseteq DOMAIN open /\ \A x \in DOMAIN open' : open'[x] = open[x]
  BY DEF Closed
<1>2. DescriptorsAreHeld'
  BY <1>1 DEF HolderInv, DescriptorsAreHeld, Held
<1> QED
  BY <1>2 DEF HolderInv, SpawnedHasNone, ClientNeverRuns

LEMMA DuplicateHolds ==
  ASSUME AppInv, HolderInv, NEW c \in DOMAIN core, Duplicate(c)
  PROVE  HolderInv'
<1> DEFINE l == Lowest
           k == SecondLowest
<1>1. l \in Nat \ {None} /\ l \notin DOMAIN open /\ IsFiniteSet(DOMAIN open \cup {l})
  BY HandedOutIsFree, FS_AddElement DEF AppInv, DescriptorInv, Lowest
<1>2. k \in Nat \ {None} /\ k \notin DOMAIN open \cup {l}
  BY <1>1, HandedOutIsFree DEF SecondLowest
<1>3. /\ DOMAIN open' = DOMAIN open \cup {l, k} /\ leaked' = leaked
      /\ \A x \in DOMAIN open : open'[x] = open[x]
      /\ \A x \in {l, k} : open'[x].owner = "core"
      /\ Runs(c, "ready", l, k) /\ core[c].phase = "spawned"
  BY <1>1, <1>2 DEF Duplicate
<1> HIDE DEF l, k
<1>4. /\ DOMAIN core' = DOMAIN core /\ core'[c].phase = "ready"
      /\ core'[c].read = l /\ core'[c].write = k
      /\ \A d \in DOMAIN core : d # c => core'[d] = core[d]
  BY <1>1, <1>2, <1>3, RunsEffect DEF AppInv
<1>5. \A fd \in DOMAIN open : Held(fd)'
  <2> SUFFICES ASSUME NEW fd \in DOMAIN open PROVE Held(fd)'
    OBVIOUS
  <2>1. open'[fd] = open[fd] /\ Held(fd) /\ fd \in DOMAIN open
    BY <1>3 DEF HolderInv, DescriptorsAreHeld
  <2>2. CASE open[fd].owner = "core"
    <3>1. PICK d \in DOMAIN core : fd \in {core[d].read, core[d].write} \ {None}
      BY <2>1, <2>2 DEF Held
    <3>2. CASE d # c
      BY <1>4, <2>1, <2>2, <3>1, <3>2 DEF Held
    <3>3. CASE d = c
      BY <1>3, <3>1, <3>3 DEF HolderInv, SpawnedHasNone
    <3> QED
      BY <3>2, <3>3
  <2> QED
    BY <1>3, <2>1, <2>2 DEF Held
<1>6. \A fd \in {l, k} : Held(fd)'
  BY <1>1, <1>2, <1>3, <1>4 DEF Held
<1>7. SpawnedHasNone' /\ ClientNeverRuns'
  BY <1>4 DEF HolderInv, SpawnedHasNone, ClientNeverRuns
<1> QED
  BY <1>3, <1>5, <1>6, <1>7 DEF HolderInv, DescriptorsAreHeld

LEMMA DuplicateFailsHolds ==
  ASSUME AppInv, HolderInv, NEW c \in DOMAIN core, DuplicateFails(c)
  PROVE  HolderInv'
<1> DEFINE l == Lowest
<1>1. Runs(c, "failed", None, None) /\ core[c].phase = "spawned"
  BY DEF DuplicateFails
<1>2. \/ UNCHANGED <<open, leaked>>
      \/ open' = Opened(l, open[core[c].fd].tun, "nobody") /\ leaked' = TRUE
  BY DEF DuplicateFails
<1> HIDE DEF l
<1>3. /\ DOMAIN core' = DOMAIN core /\ core'[c].phase = "failed"
      /\ \A d \in DOMAIN core : d # c => core'[d] = core[d]
  BY <1>1, RunsEffect DEF AppInv, None
<1>4. \A fd \in DOMAIN open : open'[fd] = open[fd] => Held(fd)'
  <2> SUFFICES ASSUME NEW fd \in DOMAIN open, open'[fd] = open[fd] PROVE Held(fd)'
    OBVIOUS
  <2>1. Held(fd)
    BY DEF HolderInv, DescriptorsAreHeld
  <2>2. CASE open[fd].owner = "core"
    <3>1. PICK d \in DOMAIN core : fd \in {core[d].read, core[d].write} \ {None}
      BY <2>1, <2>2 DEF Held
    <3>2. d # c
      BY <1>1, <3>1 DEF HolderInv, SpawnedHasNone
    <3> QED
      BY <1>3, <2>2, <3>1, <3>2 DEF Held
  <2>3. leaked => leaked'
    BY <1>2
  <2> QED
    BY <2>1, <2>2, <2>3 DEF Held
<1>5. DescriptorsAreHeld'
  <2>1. CASE UNCHANGED <<open, leaked>>
    BY <1>4, <2>1 DEF DescriptorsAreHeld
  <2>2. CASE open' = Opened(l, open[core[c].fd].tun, "nobody") /\ leaked' = TRUE
    <3>1. /\ DOMAIN open' = DOMAIN open \cup {l} /\ open'[l].owner = "nobody"
          /\ \A x \in DOMAIN open \ {l} : open'[x] = open[x]
      BY <2>2 DEF Opened
    <3>2. \A fd \in {l} : Held(fd)'
      BY <2>2, <3>1 DEF Held
    <3> QED
      BY <1>4, <3>1, <3>2 DEF DescriptorsAreHeld
  <2> QED
    BY <1>2, <2>1, <2>2
<1>6. SpawnedHasNone' /\ ClientNeverRuns'
  BY <1>3 DEF HolderInv, SpawnedHasNone, ClientNeverRuns
<1> QED
  BY <1>5, <1>6 DEF HolderInv

\* config.rs parses RELAY_ROLE to entry, exit or both; lib.rs sets it to client.
LEMMA AndroidEnvIsRejected == ~Accepted(AndroidEnv)
<1>1. Role(AndroidEnv) = "client"
  BY DEF Role, Value, Given, AndroidEnv
<1> QED
  BY <1>1 DEF Accepted, Parses, ModesParse, RelayRoles

LEMMA RunClientHolds ==
  ASSUME AppInv, HolderInv, NEW c \in DOMAIN core, RunClient(c)
  PROVE  HolderInv'
<1>1. UNCHANGED <<open, leaked>> /\ Runs(c, "ended", core[c].read, core[c].write)
  BY AndroidEnvIsRejected DEF RunClient
<1>2. core[c].read \in Nat /\ core[c].write \in Nat
  BY CoreFields DEF AppInv
<1>3. /\ DOMAIN core' = DOMAIN core /\ core'[c].phase = "ended"
      /\ \A d \in DOMAIN core : d # c => core'[d] = core[d]
      /\ \A d \in DOMAIN core : core'[d].read = core[d].read /\ core'[d].write = core[d].write
  BY <1>1, <1>2, RunsEffect DEF AppInv
<1>4. DescriptorsAreHeld'
  BY <1>1, <1>3 DEF HolderInv, DescriptorsAreHeld, Held
<1>5. SpawnedHasNone' /\ ClientNeverRuns'
  BY <1>3 DEF HolderInv, SpawnedHasNone, ClientNeverRuns
<1> QED
  BY <1>4, <1>5 DEF HolderInv

LEMMA ThreadEndsHolds ==
  ASSUME AppInv, HolderInv, NEW c \in DOMAIN core, ReaderEnds(c) \/ WriterEnds(c)
  PROVE  HolderInv'
<1>1. leaked' = leaked
  BY DEF ReaderEnds, WriterEnds
<1>2. /\ core[c].read \in Nat /\ core[c].write \in Nat
      /\ core[c].phase \in {"spawned", "ready", "failed", "running", "ended"}
  BY CoreFields DEF AppInv
<1>3. PICK fd \in {core[c].read, core[c].write} :
        /\ fd # None /\ open' = Closed({fd})
        /\ \/ fd = core[c].read /\ Runs(c, core[c].phase, None, core[c].write)
           \/ /\ fd = core[c].write /\ Runs(c, "ended", core[c].read, None)
              /\ core[c].phase = "ended"
  BY DEF ReaderEnds, WriterEnds
<1>4. DOMAIN open' = DOMAIN open \ {fd} /\ \A x \in DOMAIN open' : open'[x] = open[x]
  BY <1>3 DEF Closed
<1>5. /\ DOMAIN core' = DOMAIN core /\ core'[c].phase = core[c].phase
      /\ \A d \in DOMAIN core : d # c => core'[d] = core[d]
      /\ core'[c].read = IF fd = core[c].read THEN None ELSE core[c].read
      /\ core'[c].write = IF fd = core[c].write THEN None ELSE core[c].write
  <2>1. fd = core[c].read => fd # core[c].write
    BY <1>3 DEF AppInv, DescriptorInv
  <2>2. CASE fd = core[c].read /\ Runs(c, core[c].phase, None, core[c].write)
    BY <1>2, <2>1, <2>2, RunsEffect DEF AppInv, None
  <2>3. CASE fd = core[c].write /\ Runs(c, "ended", core[c].read, None) /\ core[c].phase = "ended"
    BY <1>2, <2>1, <2>3, RunsEffect DEF AppInv, None
  <2> QED
    BY <1>3, <2>2, <2>3
<1>6. \A d \in DOMAIN core : {core[d].read, core[d].write} \ {None, fd}
                               \subseteq {core'[d].read, core'[d].write} \ {None}
  BY <1>5
<1>7. DescriptorsAreHeld'
  <2> SUFFICES ASSUME NEW x \in DOMAIN open' PROVE Held(x)'
    BY DEF DescriptorsAreHeld
  <2>1. x # fd /\ open'[x] = open[x] /\ Held(x)
    BY <1>4 DEF HolderInv, DescriptorsAreHeld
  <2> QED
    BY <1>1, <1>5, <1>6, <2>1 DEF Held
<1>8. SpawnedHasNone' /\ ClientNeverRuns'
  BY <1>5 DEF HolderInv, SpawnedHasNone, ClientNeverRuns
<1> QED
  BY <1>7, <1>8 DEF HolderInv

LEMMA HolderStep == AppInv /\ HolderInv /\ [Next]_vars => HolderInv'
<1> SUFFICES ASSUME AppInv, HolderInv, [Next]_vars PROVE HolderInv'
  OBVIOUS
<1>1. CASE TapConnect \/ TapDisconnect \/ BridgeConnect \/ ConnectEnds \/ PollAnswered
  BY <1>1, NothingReleased DEF TapConnect, TapDisconnect, BridgeConnect, ConnectEnds,
                               PollAnswered, coreVars
<1>2. CASE (\E i \in DOMAIN polls : PollApplied(i)) \/ DialogAnswered \/ UNCHANGED vars
  BY <1>2, NothingReleased DEF PollApplied, DialogAnswered, coreVars, vars
<1>3. CASE ServiceStop \/ Revoke \/ Collect
  <2>1. (\E fd : open' = Closed({fd})) /\ UNCHANGED <<core, leaked>>
    BY <1>3 DEF ServiceStop, Revoke, StopsCore, Collect, coreVars
  <2> QED
    BY <2>1, CloseHolds
<1>4. ASSUME NEW c \in DOMAIN core, CoreStep(c) \/ ReaderEnds(c) PROVE HolderInv'
  BY <1>4, DuplicateHolds, DuplicateFailsHolds, RunClientHolds, ThreadEndsHolds DEF CoreStep
<1> QED
  BY <1>1, <1>2, <1>3, <1>4, EstablishHolds, StartCoreHolds DEF Next

LEMMA HolderInvariant == Spec => [](AppInv /\ HolderInv)
<1>1. Init => HolderInv
  BY DEF Init, HolderInv, DescriptorsAreHeld, SpawnedHasNone, ClientNeverRuns
<1> QED
  BY <1>1, AppInitially, AppStep, HolderStep, PTL DEF Spec

\* However starts, stops and revocations interleave with the threads of earlier
\* cores, no descriptor of the tunnel is forgotten: it is the service's, or a
\* reader or writer that will end still has it, unless a second dup failed
\* (lib.rs, start_core).
THEOREM NoDescriptorIsForgotten == Spec => []DescriptorsAreHeld
BY HolderInvariant, PTL DEF HolderInv

\* The client behind the VPN service never comes up, however often the user
\* connects: the role lib.rs gives it is not one that config.rs parses.
THEOREM AndroidClientNeverRuns == Spec => []ClientNeverRuns
BY HolderInvariant, PTL DEF HolderInv

\* Whatever status answers are still on their way when the user disconnects, only
\* connect() itself shows a user who has disconnected as connected (main.dart,
\* _refreshBackendStatus).
THEOREM PollingRespectsTheUser == Spec => []DisconnectSticks
<1>1. Init => DisconnectSticks
  BY DEF Init, DisconnectSticks
<1>2. DisconnectSticks /\ [Next]_vars => DisconnectSticks'
  <2> SUFFICES ASSUME DisconnectSticks, [Next]_vars PROVE DisconnectSticks'
    OBVIOUS
  <2>1. CASE TapConnect \/ TapDisconnect
    BY <2>1 DEF TapConnect, TapDisconnect, Shows, DisconnectSticks
  <2>2. CASE BridgeConnect \/ ConnectEnds
    BY <2>2 DEF BridgeConnect, ConnectEnds, Shows, DisconnectSticks
  <2>3. ASSUME NEW i \in DOMAIN polls, PollApplied(i) PROVE DisconnectSticks'
    BY <2>3 DEF PollApplied, PollShows, Shows, DisconnectSticks
  <2>4. ASSUME UNCHANGED <<ui, userDisconnected, byConnect>> PROVE DisconnectSticks'
    BY <2>4 DEF DisconnectSticks
  <2>5. CASE \/ PollAnswered \/ DialogAnswered \/ Establish \/ StartCore \/ ServiceStop
             \/ Revoke \/ Collect \/ UNCHANGED vars
    BY <2>4, <2>5 DEF PollAnswered, DialogAnswered, Establish, StartCore, ServiceStop, Revoke,
                      Collect, vars, screenVars
  <2>6. ASSUME NEW c \in DOMAIN core, CoreStep(c) \/ ReaderEnds(c) PROVE DisconnectSticks'
    BY <2>4, <2>6 DEF CoreStep, Duplicate, DuplicateFails, RunClient, WriterEnds, ReaderEnds,
                      screenVars
  <2> QED
    BY <2>1, <2>2, <2>3, <2>5, <2>6 DEF Next
<1> QED
  BY <1>1, <1>2, PTL DEF Spec
=============================================================================
