------------------------------- MODULE Registry -------------------------------
(***************************************************************************)
(* The sources of one account (sources/registry.ts): a row of source_state *)
(* for each that was ever on.  The Sources page switches them, two pages   *)
(* of it perhaps (graphql/resolvers/extension.ts); the command line adds   *)
(* and removes the account and puts its sources back to those a new one    *)
(* gets (cli.ts); every start of the server seeds the accounts that have   *)
(* no row at all (main.ts).                                                *)
(***************************************************************************)
EXTENDS Naturals, FiniteSets

CONSTANTS
    Packages,    \* the catalogue
    Seeded       \* English and multi-language ones, which a new account gets

ASSUME RegistryAssumption == Seeded \subseteq Packages /\ Seeded # {}

VARIABLES
    member,      \* whether the account is there
    state,       \* source_state: "on", "off", or "none" where there is no row
    command,     \* what the command line has under way
    choice,      \* what the account last chose for each source, or "none"
    overtaken    \* history: sources it chose while a seeding had asked already

registryVars == <<member, state, command, choice, overtaken>>

NoSources == [p \in Packages |-> "none"]
NoCommand == [name |-> "idle"]

RegistryInit ==
    /\ member = FALSE
    /\ state = NoSources
    /\ command = NoCommand
    /\ choice = NoSources
    /\ overtaken = {}

On(s) == {p \in Packages : s[p] = "on"}

Install(s, ps) == [p \in Packages |-> IF p \in ps THEN "on" ELSE s[p]]
\* An UPDATE: where there is no row, none is made.
Uninstall(s, ps) ==
    [p \in Packages |-> IF p \in ps /\ s[p] # "none" THEN "off" ELSE s[p]]

\* Mutant: an account with nothing switched on is taken for a new one.
SeedIdle(s) == IF On(s) = {} THEN Install(s, Seeded) ELSE s

\* seedDefaults: an account that has a row, on or off, is left alone.
SeedDefaults(s) == IF s = NoSources THEN Install(s, Seeded) ELSE s

\* users add: the account is committed before it is seeded.
AddMember ==
    /\ ~member /\ command = NoCommand
    /\ member' = TRUE
    /\ command' = [name |-> "add"]
    /\ UNCHANGED <<state, choice, overtaken>>

\* Its rows are asked for before the transaction that adds them begins.
ReadSeeded ==
    /\ command.name = "add"
    /\ command' = IF SeedDefaults(state) # state THEN [name |-> "seed"] ELSE NoCommand
    /\ UNCHANGED <<member, state, choice, overtaken>>

\* The rows of an account that is gone meanwhile are refused.
SeedAdded ==
    /\ command.name = "seed"
    /\ state' = IF member THEN Install(state, Seeded) ELSE state
    /\ command' = NoCommand
    /\ UNCHANGED <<member, choice, overtaken>>

\* main.ts: at every start, before a request is taken; what the command line
\* can do between the question and the rows comes to the same rows.
Boot ==
    /\ state' = IF member THEN SeedDefaults(state) ELSE state
    /\ UNCHANGED <<member, command, choice, overtaken>>

\* updateExtension
Switch(p, on) ==
    /\ member
    /\ state' = IF on THEN Install(state, {p}) ELSE Uninstall(state, {p})
    /\ choice' = [choice EXCEPT ![p] = state'[p]]
    /\ overtaken' = IF command.name = "seed" THEN overtaken \cup {p} ELSE overtaken \ {p}
    /\ UNCHANGED <<member, command>>

\* users reseed: the differences are read, then applied; the server goes on.
DiffAgainstSeed ==
    /\ member /\ command = NoCommand
    /\ command' = [name |-> "reseed", install |-> Seeded \ On(state),
                   uninstall |-> On(state) \ Seeded]
    /\ UNCHANGED <<member, state, choice, overtaken>>

ApplySeedDiff ==
    /\ command.name = "reseed"
    /\ command' = NoCommand
    /\ IF member
       THEN /\ state' = Uninstall(Install(state, command.install), command.uninstall)
            /\ choice' = [p \in Packages |->
                            IF p \in command.install \cup command.uninstall THEN "none"
                            ELSE choice[p]]
       ELSE UNCHANGED <<state, choice>>
    /\ UNCHANGED <<member, overtaken>>

\* The command line is interrupted, with or without its last write.
Interrupted ==
    /\ command # NoCommand
    /\ command' = NoCommand
    /\ UNCHANGED <<member, state, choice, overtaken>>

RemoveMember ==
    /\ member
    /\ member' = FALSE
    /\ state' = NoSources
    /\ choice' = NoSources
    /\ overtaken' = {}
    /\ UNCHANGED command

RegistryNext ==
    \/ AddMember \/ ReadSeeded \/ SeedAdded \/ Boot \/ RemoveMember
    \/ \E p \in Packages : \E on \in BOOLEAN : Switch(p, on)
    \/ DiffAgainstSeed \/ ApplySeedDiff \/ Interrupted

RegistrySpec == RegistryInit /\ [][RegistryNext]_registryVars

RegistryTypeOK ==
    /\ state \in [Packages -> {"on", "off", "none"}]
    /\ choice \in [Packages -> {"on", "off", "none"}]
    /\ ~member => state = NoSources

\* What the account switched on or off stays so through restarts, additions
\* that were interrupted and seeding that comes late: seeding "cannot undo
\* somebody's deliberate choice" (main.ts:44-47).  Only reseed does, and a
\* seeding that had found no row before the choice was made (registry.ts:342).
ChoicesStand ==
    \A p \in Packages \ overtaken : choice[p] # "none" => state[p] = choice[p]
=============================================================================
