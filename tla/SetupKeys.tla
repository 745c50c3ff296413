----------------------------- MODULE SetupKeys -----------------------------
(***************************************************************************)
(* The "setup-keys" command: cli_setup_keys (adapters/cli/commands/        *)
(* backup.py) and setup_keys (adapters/backup/setup_keys.py).              *)
(*                                                                         *)
(* A Setup is a place from which the command is started again and again    *)
(* (the ExecStartPre line of the service, an operator).  For each server   *)
(* in turn it makes a key pair, appends the public key to authorized_keys  *)
(* on the machine and tests the key.  A key is a number; authorized_keys   *)
(* counts how often each key is in it.  Every file and every remote        *)
(* command is a step of its own, so that a kill, a lost connection or the  *)
(* steps of another setup come between any two.                            *)
(***************************************************************************)
EXTENDS Integers, FiniteSets

CONSTANTS
    Setup,
    Server,     \* configured servers, numbered in the order of the list
    Local,      \* the servers that are the backup server itself
    LooksFor,   \* [Server -> whose .pub key_file.with_suffix names, or 0]
    MaxKeys,    \* bound: key pairs made
    MaxFaults   \* bound: environment faults

ASSUME SetupAssumption ==
    /\ Server \subseteq Nat \ {0} /\ Local \subseteq Server
    /\ LooksFor \in [Server -> Server \cup {0}]
    /\ MaxKeys \in Nat /\ MaxFaults \in Nat

VARIABLES
    priv,       \* [Server -> key in the private key file, or 0]
    pub,        \* [Server -> key in the .pub file ssh-keygen made, or 0]
    auth,       \* [Server -> [key -> lines of authorized_keys]]
    pc,         \* [Setup -> step it is about to make]
    todo,       \* [Setup -> servers the loop has not finished]
    text,       \* [Setup -> pub_key_content]
    report,     \* [Setup -> [Server -> the result returned]]
    code,       \* [Setup -> exit code]
    made,       \* key pairs made
    faults,
    hit         \* observability: [Setup -> a fault struck this start or another
                \* setup ran at the same time]

files == <<priv, pub, auth, made>>
vars  == <<files, pc, todo, text, report, code, faults, hit>>

Key     == 1 .. MaxKeys
Running == {"next", "keygen", "pair", "read", "check", "append", "test"}

TypeOK ==
    /\ priv \in [Server -> Key \cup {0}]
    /\ pub \in [Server -> Key \cup {0}]
    /\ auth \in [Server -> [Key -> Nat]]
    /\ pc \in [Setup -> Running \cup {"ended"}]
    /\ todo \in [Setup -> SUBSET Server]
    /\ text \in [Setup -> Key \cup {0}]
    /\ report \in [Setup -> [Server -> {"none", "ok", "failed"}]]
    /\ code \in [Setup -> {"none", "success", "general", "exception"}]
    /\ made \in Key \cup {0}
    /\ faults \in 0 .. MaxFaults
    /\ hit \in [Setup -> BOOLEAN]

Init ==
    /\ priv = [s \in Server |-> 0]
    /\ pub = [s \in Server |-> 0]
    /\ auth = [s \in Server |-> [k \in Key |-> 0]]
    /\ pc = [p \in Setup |-> "ended"]
    /\ todo = [p \in Setup |-> {}]
    /\ text = [p \in Setup |-> 0]
    /\ report = [p \in Setup |-> [s \in Server |-> "none"]]
    /\ code = [p \in Setup |-> "none"]
    /\ made = 0
    /\ faults = 0
    /\ hit = [p \in Setup |-> FALSE]

-----------------------------------------------------------------------------
\* s is the server the loop of p is at.
At(p, s) == s \in todo[p] /\ \A t \in todo[p] : s <= t

Works(s) == s \in Local \/ (priv[s] # 0 /\ auth[s][priv[s]] > 0)

\* with_suffix(".pub") names another file than the one ssh-keygen wrote.
Dotted(s) == LooksFor[s] # s

\* A crash of ssh-keygen left the private file alone.
HalfPair(s) == priv[s] # 0 /\ pub[s] = 0

Step(p, from, to) == pc[p] = from /\ pc' = [pc EXCEPT ![p] = to]
Fault(p) == /\ faults < MaxFaults /\ faults' = faults + 1
            /\ hit' = [hit EXCEPT ![p] = TRUE]
NoFault == UNCHANGED <<faults, hit>>

\* results[server.name] = ok, and on to the next server.
Settle(p, s, from, result) ==
    /\ Step(p, from, "next")
    /\ report' = [report EXCEPT ![p][s] = result]
    /\ todo' = [todo EXCEPT ![p] = @ \ {s}]
    /\ UNCHANGED <<text, code>>
Continue(p, from, to) == Step(p, from, to) /\ UNCHANGED <<text, todo, report, code>>

\* The command starts; without a bootstrap_key it ends at once.
Start(p) ==
    /\ \/ /\ Step(p, "ended", "next")
          /\ code' = [code EXCEPT ![p] = "none"]
       \/ /\ Step(p, "ended", "ended")
          /\ code' = [code EXCEPT ![p] = "general"]
    /\ todo' = [todo EXCEPT ![p] = Server]
    /\ report' = [report EXCEPT ![p] = [s \in Server |-> "none"]]
    /\ hit' = [q \in Setup |->
          IF q = p THEN \E r \in Setup \ {p} : pc[r] # "ended" ELSE hit[q] \/ pc[q] # "ended"]
    /\ UNCHANGED <<files, text, faults>>

\* Mutant: the private key file is not looked at.
TakeServerAlwaysNew(p, s) ==
    /\ At(p, s)
    /\ IF s \in Local THEN Settle(p, s, "next", "ok") ELSE Continue(p, "next", "keygen")
    /\ NoFault /\ UNCHANGED files

\* The head of the loop: a local server needs no key, an existing private key
\* file is kept.
TakeServer(p, s) ==
    /\ At(p, s)
    /\ \/ s \in Local /\ Settle(p, s, "next", "ok")
       \/ s \notin Local /\ priv[s] = 0 /\ Continue(p, "next", "keygen")
       \/ s \notin Local /\ priv[s] # 0 /\ Continue(p, "next", "read")
    /\ NoFault /\ UNCHANGED files

\* ssh-keygen writes the private file.  It refuses when another setup has made
\* one since, and it may fail.
MakePrivate(p, s) ==
    /\ At(p, s)
    /\ \/ /\ made < MaxKeys /\ priv[s] = 0 /\ Continue(p, "keygen", "pair")
          /\ made' = made + 1
          /\ priv' = [priv EXCEPT ![s] = made + 1]
          /\ NoFault /\ UNCHANGED <<pub, auth>>
       \/ /\ priv[s] # 0 \/ faults < MaxFaults
          /\ Settle(p, s, "keygen", "failed")
          /\ IF priv[s] # 0 THEN NoFault ELSE Fault(p)
          /\ UNCHANGED files

\* ssh-keygen writes the public file beside it, or fails in between.
MakePublic(p, s) ==
    /\ At(p, s)
    /\ \/ /\ Continue(p, "pair", "read")
          /\ pub' = [pub EXCEPT ![s] = priv[s]]
          /\ NoFault /\ UNCHANGED <<priv, auth, made>>
       \/ /\ Settle(p, s, "pair", "failed")
          /\ Fault(p) /\ UNCHANGED files

\* The file that with_suffix(".pub") names is read.
ReadPublic(p, s) ==
    LET found == IF LooksFor[s] = 0 THEN 0 ELSE pub[LooksFor[s]] IN
    /\ At(p, s)
    /\ \/ /\ found = 0 /\ Settle(p, s, "read", "failed")
       \/ /\ found # 0 /\ Step(p, "read", "check")
          /\ text' = [text EXCEPT ![p] = found]
          /\ UNCHANGED <<todo, report, code>>
    /\ NoFault /\ UNCHANGED files

\* Mutant: only a failing ssh leads to the append, the answer is not read.
CheckPresentMisread(p, s) ==
    /\ At(p, s)
    /\ \/ Continue(p, "check", "append") /\ NoFault
       \/ Continue(p, "check", "append") /\ Fault(p)
    /\ UNCHANGED files

\* "grep -qF ... && echo FOUND || echo MISSING".  An ssh that fails counts as
\* MISSING.
CheckPresent(p, s) ==
    /\ At(p, s) /\ pc[p] = "check"
    /\ \/ auth[s][text[p]] > 0 /\ Continue(p, "check", "test") /\ NoFault
       \/ auth[s][text[p]] = 0 /\ Continue(p, "check", "append") /\ NoFault
       \/ Continue(p, "check", "append") /\ Fault(p)
    /\ UNCHANGED files

\* "echo ... >> authorized_keys"; the connection may be lost before or after
\* it took effect.
AppendKey(p, s) ==
    /\ At(p, s) /\ pc[p] = "append"
    /\ \/ Continue(p, "append", "test") /\ NoFault
       \/ Settle(p, s, "append", "failed") /\ Fault(p)
    /\ \/ auth' = [auth EXCEPT ![s][text[p]] = @ + 1]
       \/ faults' # faults /\ UNCHANGED auth
    /\ UNCHANGED <<priv, pub, made>>

\* Mutant: only an ssh that could not be run counts as a failed test.
TestKeyUnread(p, s) ==
    /\ At(p, s)
    /\ \/ Settle(p, s, "test", "ok") /\ NoFault
       \/ Settle(p, s, "test", "failed") /\ Fault(p)
    /\ UNCHANGED files

\* "ssh -i key host hostname": logs in with the private key.
TestKey(p, s) ==
    /\ At(p, s)
    /\ \/ Works(s) /\ Settle(p, s, "test", "ok") /\ NoFault
       \/ ~Works(s) /\ Settle(p, s, "test", "failed") /\ NoFault
       \/ Settle(p, s, "test", "failed") /\ Fault(p)
    /\ UNCHANGED files

\* cli_setup_keys prints the results and ends.
Finish(p) ==
    /\ todo[p] = {} /\ Step(p, "next", "ended")
    /\ code' = [code EXCEPT ![p] =
                  IF \E s \in Server : report[p][s] = "failed" THEN "general" ELSE "success"]
    /\ NoFault /\ UNCHANGED <<files, todo, text, report>>

\* A kill, or an OSError (no ssh, no memory) that leaves the loop: the results
\* so far are lost with it.
Stop(p) ==
    /\ pc[p] \in Running
    /\ pc' = [pc EXCEPT ![p] = "ended"]
    /\ code' = [code EXCEPT ![p] = "exception"]
    /\ Fault(p) /\ UNCHANGED <<files, todo, text, report>>

\* Mutant: the first failure ends the loop.
AdvanceUntilFailure(p) ==
    \/ \E s \in Server :
          /\ \A t \in Server : report[p][t] # "failed"
          /\ \/ TakeServer(p, s) \/ MakePrivate(p, s) \/ MakePublic(p, s)
             \/ ReadPublic(p, s) \/ CheckPresent(p, s) \/ AppendKey(p, s)
             \/ TestKey(p, s)
    \/ /\ \E t \in Server : report[p][t] = "failed"
       /\ Step(p, "next", "ended")
       /\ code' = [code EXCEPT ![p] = "general"]
       /\ NoFault /\ UNCHANGED <<files, todo, text, report>>
    \/ Finish(p)

Advance(p) ==
    \/ \E s \in Server :
          \/ TakeServer(p, s) \/ MakePrivate(p, s) \/ MakePublic(p, s)
          \/ ReadPublic(p, s) \/ CheckPresent(p, s) \/ AppendKey(p, s)
          \/ TestKey(p, s)
    \/ Finish(p)

Next == \E p \in Setup : Start(p) \/ Advance(p) \/ Stop(p)

Spec == Init /\ [][Next]_vars

\* The command is started every day, with a bootstrap_key again and again, and
\* what it starts ends.
Fairness == \A p \in Setup : /\ WF_vars(Advance(p))
                             /\ SF_vars(Start(p) /\ pc'[p] = "next")
FairSpec == Spec /\ Fairness

-----------------------------------------------------------------------------
(* Properties.                                                             *)

\* A key that a setup, finished or not, reported as working goes on working:
\* the machine accepts the private key the backups use, whatever later or
\* overlapping setups do and wherever they die.  Exit code 0 says so of every
\* server.  (Existing pairs are skipped, keys are appended.)
ReportedKeyWorks ==
    \A p \in Setup, s \in Server :
        report[p][s] = "ok" \/ code[p] = "success" => Works(s)

\* However often the command is repeated, a key gets into authorized_keys once
\* for every setup that runs at the same time, plus once for every check that
\* failed.  (The check before the append.)
CopiesCostFaults ==
    \A s \in Server, k \in Key : auth[s][k] <= Cardinality(Setup) + faults

\* A setup that met no fault and ran alone succeeds for every server whose key
\* pair is complete, whatever earlier setups, overlapping ones included, left
\* behind.  A name with a dot is left out: its .pub is looked for elsewhere.
FaultFreeSetupHeals ==
    \A p \in Setup, s \in Server :
        report[p][s] = "failed" /\ ~hit[p] => HalfPair(s) \/ Dotted(s)

\* Repeating the command in the end gives every server a working key for good,
\* except where a crash left half a pair or the name has a dot; one such server
\* does not keep the others from theirs.
EveryServerServed ==
    \A s \in Server : Dotted(s) \/ <>[](Works(s) \/ HalfPair(s))
=============================================================================
