------------------------------ MODULE Snapper -------------------------------
(***************************************************************************)
(* snapr --snap: for each entry of each file system the snapshots are      *)
(* listed, and if none of its prefix is younger than its interval the next *)
(* one is created and held.                                                *)
(*                                                                         *)
(* Several runs go on at once: the one a timer starts, and one by hand.    *)
(* Nothing but the snapshots themselves ties them together.  Others prune  *)
(* snapshots meanwhile.                                                    *)
(*                                                                         *)
(* Time is counted in ticks, Minute to the minute: zfs prints creation     *)
(* times in whole minutes.                                                 *)
(***************************************************************************)
EXTENDS Integers, Sequences, FiniteSets, FiniteSetsExt, SequencesExt

CONSTANTS Config,     \* the snap entries of each file system
          Below,      \* each file system and those below it
          Runs,       \* runs that may go on at once; "timer" is one of them
          Minute,     \* ticks of a minute
          Period,     \* ticks from one start of the timer to the next
          Stall,      \* ticks a run takes at most
          MaxTime,    \* bound on the ticks
          Faults      \* what the environment may do

(***************************************************************************)
(* An entry has a prefix, an interval and a list of tags.  A prefix is the *)
(* sequence of the pieces it is spelled with, cut so that what two of them *)
(* share is made of whole pieces: "daily" and "bidaily" are <<"daily">>    *)
(* and <<"bi", "daily">>, and a dash is a piece of its own.                *)
(*                                                                         *)
(* "zfs" lets the commands of zfs fail, "crash" kills a run, "destroy"     *)
(* prunes, and "newest" prunes even the newest snapshot of an entry.  A    *)
(* run is over before the next snapshot of an entry is due.                *)
(***************************************************************************)
ASSUME SnapperAssumption ==
    /\ DOMAIN Below = DOMAIN Config
    /\ \A fs \in DOMAIN Config : fs \in Below[fs] /\ Below[fs] \subseteq DOMAIN Config
    /\ \A fs \in DOMAIN Config :
          /\ Config[fs] \in Seq([prefix : Seq(STRING), interval : Nat, hold : Seq(STRING)])
          /\ \A i \in DOMAIN Config[fs] : Config[fs][i].interval > Stall + Minute - 1
    /\ "timer" \in Runs
    /\ Minute \in Nat \ {0} /\ MaxTime \in Nat
    /\ Stall \in Nat /\ Period \in Nat /\ Stall <= Period
    /\ Faults \subseteq {"zfs", "crash", "destroy", "newest"}

VARIABLES now,
          exist,     \* the snapshots
          holds,     \* the tags on each
          run,       \* where each run is
          started,   \* when the timer last started one
          since      \* when each entry last had a snapshot, or the timer's run gave it up

vars == <<now, exist, holds, run, started, since>>

Entries == UNION {{fs} \X DOMAIN Config[fs] : fs \in DOMAIN Config}

Idle == [step |-> "idle", left |-> {}, fs |-> "none", index |-> 0, listing |-> {},
         number |-> 0, tags |-> <<>>, began |-> 0]

Entry(r) == Config[run[r].fs][run[r].index]

-----------------------------------------------------------------------------
(* The decision.                                                           *)

\* Creation times as zfs prints them.
Printed(t) == (t \div Minute) * Minute

\* A name is a prefix, a dash and a number: the ones that begin with a prefix and its
\* dash have that prefix, or one that goes on after the dash.
Begins(prefix, of) == prefix = of \/ IsPrefix(Append(prefix, "-"), of)

\* Mutant: only the oldest snapshot of the prefix counts.
ExpiredOldest(entry, listing) ==
    LET own == {s \in listing : Begins(entry.prefix, s.prefix)}
    IN  own # {} => Printed(Min({s.created : s \in own})) <= now - entry.interval

\* No snapshot whose name begins with the prefix and its dash, whatever its
\* file system, was created after the interval began.
expired(entry, listing) ==
    \A s \in listing :
        Begins(entry.prefix, s.prefix) => Printed(s.created) <= now - entry.interval

\* The numbers after the prefix and its dash in the names of its file system,
\* wherever in the name these are: "bidaily-00007" counts for "daily".  (Split takes
\* the leftmost of two that overlap in a name, as none does here.)
Numbers(fs, entry, listing) ==
    {s.number : s \in {l \in listing : l.fs = fs /\ IsSuffix(entry.prefix, l.prefix)}}

\* Mutant: the highest number again.
lastSnap(fs, entry, listing) == Max({-1} \cup Numbers(fs, entry, listing))

\* One more than the highest number after the prefix and its dash.
nextSnap(fs, entry, listing) == 1 + Max({-1} \cup Numbers(fs, entry, listing))

-----------------------------------------------------------------------------
Init ==
    /\ now = 0
    /\ exist = {} /\ holds = <<>>
    /\ run = [r \in Runs |-> Idle]
    /\ started = 0
    /\ since = [e \in Entries |-> 0]

\* The first entry of a file system that is left, in whatever order a Go map
\* gives them; file systems without entries are passed over.
Begin(r, left, began) ==
    LET some == {fs \in left : Config[fs] # <<>>}
    IN  IF some = {} THEN run' = [run EXCEPT ![r] = Idle]
        ELSE \E fs \in some :
                run' = [run EXCEPT ![r] = [Idle EXCEPT !.step = "list", !.left = some \ {fs},
                                                       !.fs = fs, !.index = 1, !.began = began]]

\* Mutant: one entry of each file system is looked at.
ProceedOnce(r) == Begin(r, run[r].left, run[r].began)

\* The next entry, whatever became of this one.
Proceed(r) ==
    IF run[r].index < Len(Config[run[r].fs])
    THEN run' = [run EXCEPT ![r].step = "list", ![r].index = @ + 1, ![r].listing = {},
                            ![r].number = 0, ![r].tags = <<>>]
    ELSE Begin(r, run[r].left, run[r].began)

\* A run gives an entry up; the timer's is the one that is counted on.
Warn(r) ==
    /\ since' = [since EXCEPT ![<<run[r].fs, run[r].index>>] = IF r = "timer" THEN now ELSE @]
    /\ Proceed(r)

\* The timer starts a run once in a period; by hand one may start any time.
Start(r) ==
    /\ run[r] = Idle
    /\ r = "timer" => now = 0 \/ now - started = Period
    /\ Begin(r, DOMAIN Config, now)
    /\ started' = IF r = "timer" THEN now ELSE started
    /\ UNCHANGED <<now, exist, holds, since>>

\* zfs list -r: the snapshots of the file system and of those below it.
ListSnapshots(r) ==
    /\ run[r].step = "list"
    /\ run' = [run EXCEPT ![r].listing = {s \in exist : s.fs \in Below[run[r].fs]},
                          ![r].step = "holds"]
    /\ UNCHANGED <<now, exist, holds, started, since>>

\* ListSnapshots then asks for the holds of each snapshot it has listed, and fails
\* if one is gone.  Then the entry decides.
ListHolds(r) ==
    /\ run[r].step = "holds"
    /\ IF run[r].listing \subseteq exist
       THEN /\ UNCHANGED since
            /\ IF expired(Entry(r), run[r].listing)
               THEN run' = [run EXCEPT ![r].number = nextSnap(run[r].fs, Entry(r), run[r].listing),
                                       ![r].step = "create", ![r].listing = {}]
               ELSE Proceed(r)
       ELSE Warn(r)
    /\ UNCHANGED <<now, exist, holds, started>>

\* zfs snapshot refuses a name that is taken.
CreateSnapshot(r) ==
    LET fs       == run[r].fs
        snapshot == [fs |-> fs, prefix |-> Entry(r).prefix, number |-> run[r].number,
                     created |-> now]
        taken    == \E s \in exist : [s EXCEPT !.created = now] = snapshot
    IN  /\ run[r].step = "create"
        /\ IF taken
           THEN Proceed(r) /\ UNCHANGED <<exist, holds, since>>
           ELSE /\ exist' = exist \cup {snapshot}
                /\ holds' = [s \in exist' |-> IF s = snapshot THEN {} ELSE holds[s]]
                /\ since' = [since EXCEPT ![<<fs, run[r].index>>] = now]
                /\ IF Entry(r).hold = <<>>
                   THEN Proceed(r)
                   ELSE run' = [run EXCEPT ![r].step = "hold", ![r].tags = Entry(r).hold]
        /\ UNCHANGED <<now, started>>

\* The tags are applied in turn; one that fails is only logged.
HoldSnapshot(r) ==
    LET same == {s \in exist : /\ s.fs = run[r].fs /\ s.prefix = Entry(r).prefix
                               /\ s.number = run[r].number}
    IN  /\ run[r].step = "hold"
        /\ \/ holds' = [s \in exist |-> holds[s] \cup {t \in {Head(run[r].tags)} : s \in same}]
           \/ "zfs" \in Faults /\ UNCHANGED holds
        /\ IF Len(run[r].tags) = 1
           THEN Proceed(r)
           ELSE run' = [run EXCEPT ![r].tags = Tail(@)]
        /\ UNCHANGED <<now, exist, started, since>>

\* A command of zfs fails, one of those that list or the one that creates,
\* and with it the entry.
CommandFails(r) ==
    /\ run[r].step \in {"holds", "create"} /\ "zfs" \in Faults
    /\ Warn(r)
    /\ UNCHANGED <<now, exist, holds, started>>

Crash(r) ==
    /\ run[r] # Idle /\ "crash" \in Faults
    /\ run' = [run EXCEPT ![r] = Idle]
    /\ since' = [e \in Entries |-> IF r = "timer" THEN now ELSE since[e]]
    /\ UNCHANGED <<now, exist, holds, started>>

\* Pruning, of snapshots that nothing holds.
Destroy ==
    /\ "destroy" \in Faults
    /\ \E s \in exist :
          /\ holds[s] = {}
          /\ \/ "newest" \in Faults
             \/ \E t \in exist : t.fs = s.fs /\ t.prefix = s.prefix /\ t.created > s.created
          /\ exist' = exist \ {s}
          /\ holds' = [t \in exist' |-> holds[t]]
    /\ UNCHANGED <<now, run, started, since>>

Tick ==
    /\ now < MaxTime
    /\ now - started < Period /\ (now = 0 => run["timer"] # Idle)
    /\ \A r \in Runs : run[r] # Idle => now - run[r].began < Stall
    /\ now' = now + 1
    /\ UNCHANGED <<exist, holds, run, started, since>>

Next ==
    \/ \E r \in Runs : \/ Start(r) \/ ListSnapshots(r) \/ ListHolds(r) \/ CreateSnapshot(r)
                       \/ HoldSnapshot(r) \/ CommandFails(r) \/ Crash(r)
    \/ Destroy \/ Tick

Spec == Init /\ [][Next]_vars

-----------------------------------------------------------------------------
(* Properties.                                                             *)

Snapshots == [fs : DOMAIN Config, prefix : Seq(STRING), number : Nat, created : 0 .. now]

Run == [step : {"idle", "list", "holds", "create", "hold"},
        left : SUBSET DOMAIN Config, fs : DOMAIN Config \cup {"none"}, index : Nat,
        listing : SUBSET Snapshots, number : Nat, tags : Seq(STRING), began : 0 .. now]

\* Type invariant.
TypeOK ==
    /\ now \in 0 .. MaxTime /\ started \in 0 .. now
    /\ IsFiniteSet(exist) /\ exist \subseteq Snapshots
    /\ \A s \in exist : \E i \in DOMAIN Config[s.fs] : s.prefix = Config[s.fs][i].prefix
    /\ holds \in [exist -> SUBSET STRING]
    /\ run \in [Runs -> Run]
    /\ since \in [Entries -> 0 .. now]

\* Of two snapshots of an entry the one with the higher number is the newer,
\* by its interval less what is cut off a minute, though runs overlap.
Spaced ==
    \A e \in Entries :
        LET entry == Config[e[1]][e[2]]
            own   == {s \in exist : s.fs = e[1] /\ s.prefix = entry.prefix}
        IN  \A s, t \in own :
                s.number < t.number => t.created - s.created >= entry.interval - (Minute - 1)

\* Each file system has its interval: an entry that no run has given up since
\* is never older than its interval, a period of the timer and a run.
Current ==
    \A e \in Entries :
        now - since[e] <= Config[e[1]][e[2]].interval + Period + Stall

-----------------------------------------------------------------------------
(* The inductive invariants.                                               *)

\* What a run that is not idle is at.
Working(r) ==
    /\ <<run[r].fs, run[r].index>> \in Entries
    /\ run[r].fs \notin run[r].left
    /\ now - run[r].began <= Stall
    /\ run[r].step = "holds" => \A s \in run[r].listing : s.fs \in Below[run[r].fs]
    /\ run[r].step = "hold" => run[r].tags # <<>>

\* The snapshots of the entry a run is at.
Own(r) == {s \in exist : s.fs = run[r].fs /\ s.prefix = Entry(r).prefix}

\* The number a run creates a snapshot with, if it does.
Chosen(r) == IF run[r].step = "holds" THEN nextSnap(run[r].fs, Entry(r), run[r].listing)
                                      ELSE run[r].number

\* What a run has not seen has been created since it began.
Seen(r) ==
    /\ run[r].step = "holds" => \A s \in Own(r) : s \in run[r].listing \/ s.created >= run[r].began
    /\ run[r].step = "create" =>
          \A s \in Own(r) : s.number = run[r].number => s.created >= run[r].began

Sound(r) == IF run[r].step = "idle" THEN run[r] = Idle ELSE Working(r) /\ Seen(r)

Invariant ==
    /\ TypeOK
    /\ \A r \in Runs : Sound(r)
    /\ \A s, t \in exist : s.fs = t.fs /\ s.prefix = t.prefix /\ s.number = t.number => s = t

\* No number of an entry is read from the name of a snapshot of another.
NumbersApart ==
    \A fs \in DOMAIN Config : \A i, j \in DOMAIN Config[fs] :
        IsSuffix(Config[fs][i].prefix, Config[fs][j].prefix) => i = j

\* Runs agree on the next number: all others are lower, and old enough.
Agreed(r) ==
    LET n == Chosen(r)
    IN  /\ n \in Nat
        /\ n = 0 \/ \E s \in Own(r) : s.number >= n - 1
        /\ \A s \in Own(r) :
              \/ s.number = n /\ s.created >= run[r].began
              \/ /\ s.number < n
                 /\ run[r].step = "holds" => s \in run[r].listing
                 /\ run[r].step = "create" =>
                       now - s.created >= Entry(r).interval - (Minute - 1)

Orderly == Spaced /\ \A r \in Runs : run[r].step \in {"holds", "create"} => Agreed(r)

\* No snapshot that counts for an entry is one of another entry.
AgesApart ==
    \A f \in DOMAIN Config : \A g \in Below[f] :
        \A i \in DOMAIN Config[f], j \in DOMAIN Config[g] :
            Begins(Config[f][i].prefix, Config[g][j].prefix) => f = g /\ i = j

\* The entries a run has yet to look at, or to settle.
Ahead(r) ==
    IF run[r].step = "idle" THEN {}
    ELSE {e \in Entries :
            \/ e[1] \in run[r].left
            \/ e[1] = run[r].fs /\ e[2] > run[r].index
            \/ e[1] = run[r].fs /\ e[2] = run[r].index /\ run[r].step # "hold"}

\* The timer keeps its period, and each of its runs settles every entry.
Timely ==
    /\ now - started <= Period
    /\ run["timer"].step # "idle" => run["timer"].began = started
    /\ \A e \in Entries :
          since[e] >= started - Config[e[1]][e[2]].interval - (IF e \in Ahead("timer") THEN Period ELSE 0)
    /\ \A s \in exist : \A i \in DOMAIN Config[s.fs] :
          s.prefix = Config[s.fs][i].prefix => s.created <= since[<<s.fs, i>>]

\* What every step keeps: what a run knows of its entry, and what it may have
\* missed, stays so however the steps of runs, failures and pruning interleave.
Inductive == Invariant /\ Orderly /\ Timely

=============================================================================
