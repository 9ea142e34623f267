---------------------------- MODULE NodeIdentity ----------------------------
(***************************************************************************)
(* The identity file (network/src/peer.rs): NodeIdentity::load_or_generate *)
(* in the programs that share one path, one system call per step.  A       *)
(* program may be killed between any two calls and started again.          *)
(***************************************************************************)
EXTENDS FiniteSets

CONSTANTS
  Process,   \* the programs started with the same identity path
  Key,       \* key pairs
  NoKey      \* no key pair

VARIABLES
  file,   \* the file: "absent", "empty" (created, not written) or its key
  step,   \* where a program stands in load_or_generate
  key,    \* the key pair it has generated or loaded
  used    \* history: the keys some program has come up with

Init ==
  /\ file = "absent"
  /\ step = [p \in Process |-> "down"]
  /\ key = [p \in Process |-> NoKey]
  /\ used = {}

Goes(p, s, k) == step' = [step EXCEPT ![p] = s] /\ key' = [key EXCEPT ![p] = k]

ComesUp(p, k) == Goes(p, "up", k) /\ used' = used \cup {k}

\* path.exists(), and a fresh key pair when it does not.
LookUp(p) ==
  /\ step[p] = "down"
  /\ \/ file # "absent" /\ Goes(p, "load", NoKey)
     \/ /\ file = "absent"
        /\ \E k \in Key \ {key[q] : q \in Process} : Goes(p, "create", k)
  /\ UNCHANGED <<file, used>>

\* A file that does not decode fails the start.
Load(p) ==
  /\ step[p] = "load"
  /\ IF file \in Key THEN ComesUp(p, file) ELSE Goes(p, "down", NoKey) /\ UNCHANGED used
  /\ UNCHANGED file

\* Variant: the file is opened with create(true) and truncate(true).
CreateOrTruncate(p) ==
  /\ step[p] = "create"
  /\ file' = "empty"
  /\ Goes(p, "write", key[p])
  /\ UNCHANGED used

\* create_new fails when the other program has created the file meanwhile.
CreateNew(p) ==
  /\ step[p] = "create"
  /\ IF file = "absent"
     THEN file' = "empty" /\ Goes(p, "write", key[p])
     ELSE Goes(p, "down", NoKey) /\ UNCHANGED file
  /\ UNCHANGED used

WriteAll(p) ==
  /\ step[p] = "write"
  /\ file' = key[p]
  /\ Goes(p, "protect", key[p])
  /\ UNCHANGED used

SetPermissions(p) ==
  /\ step[p] = "protect"
  /\ ComesUp(p, key[p])
  /\ UNCHANGED file

\* A call fails or the program is killed.
Fails(p) ==
  /\ step[p] # "down"
  /\ Goes(p, "down", NoKey)
  /\ UNCHANGED <<file, used>>

Step(p) ==
  LookUp(p) \/ Load(p) \/ CreateNew(p) \/ WriteAll(p) \/ SetPermissions(p) \/ Fails(p)

-----------------------------------------------------------------------------
\* The first start creates the identity and later starts keep it
\* (docs/deployment.md): whoever has come up has done so with the key that is in
\* the file, whichever programs were started together or killed half way.
OneIdentity == used \subseteq {file}
=============================================================================
