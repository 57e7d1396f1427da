----------------------------- MODULE PolicyTable -----------------------------
(* Which prefixes are coded, and how (policy.rs, prefix_table.rs, config.rs,   *)
(* mgmt.rs): a list of prefixes for each role, set by a configuration file and *)
(* by management, looked up by the longest prefix of a name.                   *)
EXTENDS Integers, Sequences, FiniteSets, SequencesExt

CONSTANTS
  PtNames,       \* names: sequences of components
  PtRoles,       \* produced and consumed
  PtPolicies,    \* [k, n] given to it, the ill-formed too
  PtConfigs,     \* configuration files: sequences of [prefix, role, policy]
  PtNone,
  PtSteps        \* bound: operations

ASSUME PtAssumption ==
  /\ PtSteps \in Nat /\ \A name \in PtNames : name \in Seq(Range(name))
  /\ PtPolicies \subseteq [k : Nat, n : Nat] /\ PtNone \notin [k : Nat, n : Nat]
  /\ \A file \in PtConfigs : file \in Seq([prefix : PtNames, role : PtRoles, policy : [k : Nat, n : Nat]])

VARIABLES
  entries,       \* NameTrie::entries of each role, in the order they were added
  truth,         \* history: the last policy accepted for each prefix
  ptSteps

ptVars == <<entries, truth, ptSteps>>

PtInit == entries = [r \in PtRoles |-> <<>>] /\ truth = [r \in PtRoles |-> [n \in PtNames |-> PtNone]] /\ ptSteps = 0

\* FecPolicy::systematic.
Systematic8(p) == p.k # 0 /\ p.n >= p.k /\ p.n <= 255

\* insert: in its place if the prefix is there, else at the end.
Inserted_again(list, prefix, p) == Append(list, [name |-> prefix, policy |-> p])
Inserted(list, prefix, p) ==
  IF \E i \in DOMAIN list : list[i].name = prefix
  THEN [i \in DOMAIN list |-> IF list[i].name = prefix THEN [list[i] EXCEPT !.policy = p] ELSE list[i]]
  ELSE Append(list, [name |-> prefix, policy |-> p])
\* remove: every other entry is retained, in order.
Removed(list, prefix) ==
  LET kept[i \in 0 .. Len(list)] ==
        IF i = 0 THEN <<>> ELSE IF list[i].name = prefix THEN kept[i - 1] ELSE Append(kept[i - 1], list[i])
  IN kept[Len(list)]

get_exact(list, name) ==
  IF \E i \in DOMAIN list : list[i].name = name
  THEN list[CHOOSE i \in DOMAIN list : list[i].name = name /\ \A j \in 1 .. i - 1 : list[j].name # name].policy ELSE PtNone
\* lpm: the longest of those that are a prefix, the last of them if there are more.
lookup(list, name) ==
  LET match == {i \in DOMAIN list : IsPrefix(list[i].name, name)}
  IN IF match = {} THEN PtNone
     ELSE list[CHOOSE i \in match : \A j \in match :
                 Len(list[j].name) < Len(list[i].name) \/ (Len(list[j].name) = Len(list[i].name) /\ j <= i)].policy

Counts == ptSteps < PtSteps /\ ptSteps' = ptSteps + 1

\* CodingHandler::set refuses what is not systematic.
set(prefix, role, p) ==
  /\ Counts /\ Systematic8(p)
  /\ entries' = [entries EXCEPT ![role] = Inserted(@, prefix, p)] /\ truth' = [truth EXCEPT ![role][prefix] = p]
unset(prefix, role) ==
  /\ Counts /\ entries' = [entries EXCEPT ![role] = Removed(@, prefix)] /\ truth' = [truth EXCEPT ![role][prefix] = PtNone]

\* populate stops at the first entry that is not well formed; those before it
\* are set.
Good(file) ==
  LET bad == {i \in DOMAIN file : ~Systematic8(file[i].policy)}
  IN IF bad = {} THEN file ELSE SubSeq(file, 1, (CHOOSE i \in bad : \A j \in bad : i <= j) - 1)
Filled(all, file) ==
  LET after[i \in 0 .. Len(file)] ==
        IF i = 0 THEN all ELSE [after[i - 1] EXCEPT ![file[i].role] = Inserted(@, file[i].prefix, file[i].policy)]
  IN after[Len(file)]
\* Later blocks shadow earlier ones at the same prefix and role.
LastSet(file, role, name, was) ==
  LET at == {i \in DOMAIN file : file[i].role = role /\ file[i].prefix = name}
  IN IF at = {} THEN was ELSE file[CHOOSE i \in at : \A j \in at : j <= i].policy
populate(file) ==
  /\ Counts /\ entries' = Filled(entries, Good(file))
  /\ truth' = [r \in PtRoles |-> [n \in PtNames |-> LastSet(Good(file), r, n, truth[r][n])]]

PtNext ==
  \/ \E prefix \in PtNames, role \in PtRoles : unset(prefix, role) \/ \E p \in PtPolicies : set(prefix, role, p)
  \/ \E file \in PtConfigs : populate(file)

PtSpec == PtInit /\ [][PtNext]_ptVars

(* ------------------------------- properties ------------------------------- *)
\* Types of the state: a prefix is listed once, and only with parameters that
\* the coder accepts.
PtTypeOK ==
  \A r \in PtRoles :
    /\ \A i, j \in DOMAIN entries[r] : entries[r][i].name = entries[r][j].name => i = j
    /\ \A i \in DOMAIN entries[r] : entries[r][i].policy.k \in 1 .. 255 /\ entries[r][i].policy.n \in entries[r][i].policy.k .. 255

\* A lookup gives what was last set for the longest prefix that has a policy,
\* whatever was set, replaced and removed in between.
LongestPrefixWins ==
  \A r \in PtRoles : \A n \in PtNames :
    LET set_ == {p \in PtNames : truth[r][p] # PtNone /\ IsPrefix(p, n)}
    IN /\ get_exact(entries[r], n) = truth[r][n]
       /\ lookup(entries[r], n) = IF set_ = {} THEN PtNone ELSE truth[r][CHOOSE p \in set_ : \A q \in set_ : Len(q) <= Len(p)]

\* The table is what was set, replaced and removed.
PolicyInv == PtTypeOK /\ LongestPrefixWins
=============================================================================
