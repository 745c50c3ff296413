----------------------------- MODULE Overrides ------------------------------
(***************************************************************************)
(* The --set SECTION.KEY=VALUE options (adapters/config/overrides.py): how  *)
(* they are parsed, checked together, nested in the order given and laid   *)
(* over the configuration of the files.                                    *)
(*                                                                         *)
(* A configuration is its leaves: a function from dotted paths, none a     *)
(* prefix of another, to the value and the layer recorded as its origin.   *)
(* The value of a leaf is the number of the option that gave it, 0 for the *)
(* files.  An option is the dotted parts left of "=" and what its value    *)
(* coerces to: a scalar (table = {}) or a JSON object with those keys.     *)
(***************************************************************************)
EXTENDS Integers, Sequences, FiniteSets, SequencesExt

CONSTANTS
    Option,         \* options typed: [eq : BOOLEAN, parts : Seq(STRING), table : SUBSET STRING]
    FileConfig,     \* configurations the files hold: sets of paths
    MaxOptions      \* bound: options on one command line

\* No leaf of a file lies under another.
ASSUME OverridesAssumption ==
    /\ MaxOptions \in Nat
    /\ Option \subseteq [eq : BOOLEAN, parts : Seq(STRING), table : SUBSET STRING]
    /\ \A f \in FileConfig :
          f \subseteq Seq(STRING) /\ \A p, q \in f : ~IsStrictPrefix(p, q)

VARIABLES
    given,      \* raw_overrides
    files,      \* the paths of the loaded Config
    tree,       \* overrides, by its leaves: path -> number of the option
    next,       \* the option _nest_override is at
    result,     \* the Config returned: path -> [value, origin]
    pc

vars == <<given, files, tree, next, result, pc>>

Options == UNION {[1 .. n -> Option] : n \in 0 .. MaxOptions}
Under(q, p) == IsPrefix(p, q)           \* q is p or a key under it
NoLeaf == [p \in {} |-> 0]

\* The leaves option o gives a value to.
Leaves(o) == IF o.table = {} THEN {o.parts} ELSE {Append(o.parts, k) : k \in o.table}

Init ==
    /\ given \in Options
    /\ files \in FileConfig
    /\ tree = NoLeaf /\ next = 1 /\ result = NoLeaf
    /\ pc = "parse"

-----------------------------------------------------------------------------
\* parse_override: an "=", a dot left of it, and no empty part.
ParseOverride(o) ==
    o.eq /\ Len(o.parts) >= 2 /\ \A i \in 1 .. Len(o.parts) : o.parts[i] # ""

\* Mutant: only a key under an earlier option's key is a conflict.
RefuseConflictsInOrder(os) ==
    \E i, j \in 1 .. Len(os) : i < j /\ IsStrictPrefix(os[i].parts, os[j].parts)

\* _refuse_conflicts: one option gives a key a value, another keys under it.
RefuseConflicts(os) ==
    \E i, j \in 1 .. Len(os) : IsStrictPrefix(os[i].parts, os[j].parts)

\* nest_overrides parses all options and checks them together first.
Check ==
    /\ pc = "parse"
    /\ pc' = IF given = <<>> THEN "merge"
             ELSE IF \/ \E i \in 1 .. Len(given) : ~ParseOverride(given[i])
                     \/ RefuseConflicts(given)
             THEN "refused"
             ELSE "nest"
    /\ UNCHANGED <<given, files, tree, next, result>>

\* _nest_override: the value replaces what an earlier option put at the key.
NestOverride(i) ==
    [p \in Leaves(given[i]) \cup {q \in DOMAIN tree : ~Under(q, given[i].parts)} |->
        IF p \in Leaves(given[i]) THEN i ELSE tree[p]]

Nest ==
    /\ pc = "nest"
    /\ IF next <= Len(given)
       THEN tree' = NestOverride(next) /\ next' = next + 1 /\ pc' = pc
       ELSE pc' = "merge" /\ UNCHANGED <<tree, next>>
    /\ UNCHANGED <<given, files, result>>

\* Mutant: a table of the files is replaced and not merged.
MergedShallow ==
    [p \in DOMAIN tree \cup {q \in files : \A r \in DOMAIN tree : q[2] # r[2]} |->
        IF p \in DOMAIN tree THEN tree[p] ELSE 0]

\* Config.with_overrides merges tables key by key; a scalar and a table
\* replace each other.
Merged ==
    [p \in DOMAIN tree \cup {q \in files : \A r \in DOMAIN tree : ~Under(q, r) /\ ~Under(r, q)} |->
        IF p \in DOMAIN tree THEN tree[p] ELSE 0]

\* _provenance_naming_the_cli: a leaf that is the dotted key of an option is
\* the CLI's, any other keeps the origin recorded for it, if there is one.
ProvenanceNamingTheCli(p) ==
    IF \E i \in 1 .. Len(given) : p = given[i].parts THEN "cli"
    ELSE IF p \in files THEN "file" ELSE "none"

ApplyOverrides ==
    /\ pc = "merge"
    /\ result' = [p \in DOMAIN Merged |->
                     [value |-> Merged[p], origin |-> ProvenanceNamingTheCli(p)]]
    /\ pc' = "done"
    /\ UNCHANGED <<given, files, tree, next>>

Next == Check \/ Nest \/ ApplyOverrides

Spec == Init /\ [][Next]_vars

-----------------------------------------------------------------------------
(* Properties                                                              *)

\* No option is lost without a word: whatever the order they are given in,
\* each leaf an option sets has its value in the result, unless a later option
\* names the very same key, and a key given a scalar is shown as the CLI's, so
\* that no reader is sent to a file that holds the old value
\* (_refuse_conflicts, _nest_override, _provenance_naming_the_cli).
NoOptionLost ==
    pc = "done" =>
        \A i \in 1 .. Len(given) :
            \/ \E j \in i + 1 .. Len(given) : given[j].parts = given[i].parts
            \/ \A p \in Leaves(given[i]) :
                  /\ p \in DOMAIN result /\ result[p].value = i
                  /\ given[i].table = {} => result[p].origin = "cli"

\* What no option touches is as the files have it, value and origin, and
\* nothing else appears, nor a leaf under another (Config.with_overrides,
\* _provenance_naming_the_cli).
OthersUntouched ==
    pc = "done" =>
        /\ \A p \in files :
              (\A i \in 1 .. Len(given) :
                   \A q \in Leaves(given[i]) : ~Under(p, q) /\ ~Under(q, p))
                  => p \in DOMAIN result /\ result[p] = [value |-> 0, origin |-> "file"]
        /\ \A p \in DOMAIN result :
              /\ p \in files \/ \E i \in 1 .. Len(given) : p \in Leaves(given[i])
              /\ \A q \in DOMAIN result : ~IsStrictPrefix(p, q)
=============================================================================
