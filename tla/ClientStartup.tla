--------------------------- MODULE ClientStartup ---------------------------
(***************************************************************************)
(* The start of the client binary (main in client/src/main.rs), again and  *)
(* again: the identity is loaded or generated first, and only then are the *)
(* operating system's routes installed; an error on the way ends the       *)
(* program, and the next start finds the identity file and the routes as   *)
(* they were left.  Another program that uses the same identity path is    *)
(* started and killed meanwhile.                                           *)
(***************************************************************************)
EXTENDS RouteInstall

CONSTANTS Process, Key, NoKey, Client

ASSUME ClientAssumption == Client \in Process /\ NoKey \notin Key
\* A key is not taken for one of the two contents that are none.
ASSUME KeyAssumption == {"absent", "empty"} \cap Key = {}

VARIABLES file, step, key, used

Identity == INSTANCE NodeIdentity

startupVars == <<vars, file, step, key, used>>

StartupInit == Init /\ Identity!Init

\* Programs go through load_or_generate; the client is past it while it has
\* routes to look after.
IdentityStep(p) ==
  /\ p = Client => phase \in Stopped
  /\ Identity!Step(p)
  /\ UNCHANGED vars

\* A step of install, remove_owned or the routes' environment; when it ends the
\* client, the process is gone.
RouteStep ==
  /\ Next
  /\ phase \in Stopped /\ phase' \notin Stopped => step[Client] = "up"
  /\ IF phase \notin Stopped /\ phase' \in Stopped
     THEN Identity!Goes(Client, "down", NoKey)
     ELSE UNCHANGED <<step, key>>
  /\ UNCHANGED <<file, used>>

StartupNext == RouteStep \/ \E p \in Process : IdentityStep(p)

StartupSpec == StartupInit /\ [][StartupNext]_startupVars

-----------------------------------------------------------------------------
\* Whichever programs share the identity file, are started together or are killed
\* between two calls of load_or_generate, all that come up have the file's key.
OneIdentity == Identity!OneIdentity
=============================================================================
