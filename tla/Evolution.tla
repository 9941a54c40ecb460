----------------------------- MODULE Evolution -----------------------------
(* The evolution daemon of host/evolution: the hourly cycle that adjusts the  *)
(* genome of each group from its recent runs (daemon.py, genome.py,           *)
(* fitness.py), and the two periodic memory passes whose schedule has to      *)
(* survive a restart.  A cycle runs in a thread that a time-out abandons and  *)
(* does not stop, so two of them may be at work on the same rows.             *)
(* Times are in daemon intervals, fitness in ten-thousandths, the axes of a   *)
(* genome in thousandths (the code rounds to these).                          *)
EXTENDS Integers, FiniteSets, FiniteSetsExt

CONSTANTS
    EvoGroups,
    RunKinds,       \* what a run leaves in evolution_runs: [success, ms]
    MIN_SAMPLES,
    StartRuns,      \* runs of the past week, as a number for each kind
    StartGenomes,   \* genomes earlier cycles may have left behind
    INTERVAL,       \* of each pass: [micro |-> ..., weekly |-> ...]
    MaxRuns, MaxRunChanges, MaxCycles, MaxEvoFaults    \* bounds

ASSUME EvoAssumption == MIN_SAMPLES \in Nat \ {0} /\ MaxRuns >= MIN_SAMPLES

Passes == DOMAIN INTERVAL
ASSUME IntervalAssumption == INTERVAL \in [Passes -> Nat \ {0}]

EvoThreads == {"first", "second"}   \* bound: at most two cycles at a time
Styles == <<"concise", "balanced", "detailed">>
DEFAULT_GENOME == [style |-> 2, formality |-> 500, depth |-> 500, generation |-> 0]
BadStyle == 0       \* a response_style that is none of Styles
Genome == [style : DOMAIN Styles \cup {BadStyle}, formality : 500 .. 700,
           depth : 0 .. 1000, generation : Nat]

\* Earlier cycles started from the default and kept to the ranges.
ASSUME StartAssumption == StartGenomes \subseteq Genome

VARIABLES
    runs,        \* evolution_runs of the last week: how many of each kind, per group
    genome,      \* rows of group_genome
    logged,      \* rows of evolution_log that record an evolution: their number, per group
    cycle,       \* the threads in _sync_evolve
    daemon,      \* where evolution_loop is, and the thread it waits for
    since,       \* cycles since each pass as the process knows it; INTERVAL: long ago
    saved,       \* the same by group_memory_sync
    loaded,      \* _sync_timestamps_loaded
    excused,     \* history: two cycles were at work at once, or a genome could not be read
    early,       \* history: passes recorded before their interval was over
    evoBudget    \* changes of the runs, cycles and faults so far

evoVars == <<runs, genome, logged, cycle, daemon, since, saved, loaded, excused, early, evoBudget>>
tables == <<runs, genome, logged>>
schedule == <<since, saved, loaded, early>>

NoCycle == [at |-> "idle"]

EvoInit ==
    /\ runs \in [EvoGroups -> StartRuns]
    /\ genome \in [EvoGroups -> StartGenomes]
    /\ logged = [g \in EvoGroups |-> genome[g].generation]
    /\ cycle = [t \in EvoThreads |-> NoCycle]
    /\ daemon = [at |-> "waiting"]
    /\ since = INTERVAL /\ saved = INTERVAL
    /\ loaded = FALSE /\ excused = FALSE /\ early = {}
    /\ evoBudget = [runs |-> 0, cycles |-> 0, faults |-> 0]

SpendEvo(what, max) == evoBudget[what] < max /\ evoBudget' = [evoBudget EXCEPT ![what] = @ + 1]

-----------------------------------------------------------------------------
(* The runs, and the fitness they give.                                       *)

Count(rows) == MapThenSumSet(LAMBDA k : rows[k], RunKinds)
Good(rows) == MapThenSumSet(LAMBDA k : IF k.success THEN rows[k] ELSE 0, RunKinds)

\* Mean response time of the successful runs, 0 if there are none.
AvgMs(rows) ==
    IF Good(rows) = 0 THEN 0
    ELSE MapThenSumSet(LAMBDA k : IF k.success THEN rows[k] * k.ms ELSE 0, RunKinds) \div Good(rows)

\* 5 s or less is 1, 30 s or more is 0; without a successful run it is a half.
Speed(rows) ==
    IF Good(rows) = 0 THEN 5000
    ELSE 10000 - (2 * Min({25000, Max({0, AvgMs(rows) - 5000})})) \div 5

\* Every caller of record_run passes retry_count 0, so the reliability is 1.
compute_fitness(rows) ==
    IF Count(rows) < 3 THEN 5000
    ELSE (5000 * Good(rows)) \div Count(rows) + (3 * Speed(rows)) \div 10 + 2000

\* A container run ends and is recorded, or a recorded one leaves the window of a week.
RecordRun(g, k) ==
    /\ SpendEvo("runs", MaxRunChanges)
    /\ Count(runs[g]) < MaxRuns
    /\ runs' = [runs EXCEPT ![g][k] = @ + 1]
    /\ UNCHANGED <<genome, logged, cycle, daemon, schedule, excused>>

ExpireRun(g, k) ==
    /\ SpendEvo("runs", MaxRunChanges)
    /\ runs[g][k] > 0
    /\ runs' = [runs EXCEPT ![g][k] = @ - 1]
    /\ UNCHANGED <<genome, logged, cycle, daemon, schedule, excused>>

-----------------------------------------------------------------------------
(* One step of evolution, as a function of the genome that was read.          *)

\* The stored value is rounded; a tie goes either way, as the binary fraction decides.
Rounded(num, den) == {n \in {num \div den, num \div den + 1} : 2 * (n * den - num) \in -den .. den}

\* Mutant: upwards the step is fixed, downwards proportional.
NudgedUp(f, target) ==
    IF target = 700 THEN {f + 50} ELSE Rounded(20 * f + target - f, 20)

\* update_formality: a twentieth of the way, and none within a hundredth of the target.
update_formality(f, target) ==
    IF f - target \in -9 .. 9 THEN {f} ELSE Rounded(20 * f + target - f, 20)

NewStyle(style, fitness, ms) ==
    LET s == IF style = BadStyle THEN 2 ELSE style
    IN  IF ms > 15000 /\ fitness < 4000 /\ s > 1 THEN s - 1
        ELSE IF ms < 5000 /\ fitness > 7000 /\ s < 3 THEN s + 1
        ELSE s

NewFormality(f, fitness, ms) ==
    IF fitness > 7000 /\ ms < 8000 THEN update_formality(f, 700)
    ELSE IF fitness < 4000 THEN update_formality(f, 500)
    ELSE {f}

NewDepth(d, fitness, ms) ==
    IF fitness > 7000 /\ ms < 6000 THEN Min({1000, d + 50})
    ELSE IF ms > 20000 \/ fitness < 3000 THEN Max({0, d - 50})
    ELSE d

Evolved(old, fitness, ms) ==
    {[style |-> NewStyle(old.style, fitness, ms), formality |-> f,
      depth |-> NewDepth(old.depth, fitness, ms), generation |-> old.generation + 1] :
        f \in NewFormality(old.formality, fitness, ms)}

is_genome_valid(row) == row.style # BadStyle

-----------------------------------------------------------------------------
(* _sync_evolve: what a thread does for each active group.                    *)

Go(t, to) == cycle' = [cycle EXCEPT ![t] = to]
NextGroup(t) == Go(t, [at |-> "group", todo |-> cycle[t].todo \ {cycle[t].group}])
Quiet == UNCHANGED <<runs, daemon, schedule, excused>>

\* The first reading of the runs: too few samples, and the group is skipped.
Sample(t, g) ==
    /\ cycle[t].at = "group" /\ g \in cycle[t].todo
    /\ IF Count(runs[g]) < MIN_SAMPLES
       THEN Go(t, [at |-> "group", todo |-> cycle[t].todo \ {g}])
       ELSE Go(t, [at |-> "validate", todo |-> cycle[t].todo, group |-> g, ms |-> AvgMs(runs[g])])
    /\ Quiet /\ UNCHANGED <<genome, logged, evoBudget>>

ValidateGenome(t) ==
    /\ cycle[t].at = "validate"
    /\ Go(t, [cycle[t] EXCEPT !.at = IF is_genome_valid(genome[cycle[t].group]) THEN "fitness" ELSE "reset"])
    /\ Quiet /\ UNCHANGED <<genome, logged, evoBudget>>

\* reset_genome writes the defaults and keeps the generation it reads; an error is swallowed.
Reset(t) ==
    /\ cycle[t].at = "reset"
    /\ Go(t, [cycle[t] EXCEPT !.at = "fitness"])
    /\ \/ /\ genome' = [genome EXCEPT ![cycle[t].group] = [DEFAULT_GENOME EXCEPT !.generation = genome[cycle[t].group].generation]]
          /\ UNCHANGED evoBudget
       \/ SpendEvo("faults", MaxEvoFaults) /\ UNCHANGED genome
    /\ Quiet /\ UNCHANGED logged

\* compute_fitness reads the runs again; they may be fewer by now, or unreadable.
Measure(t) ==
    /\ cycle[t].at = "fitness"
    /\ \E f \in {compute_fitness(runs[cycle[t].group]), 5000} :
          /\ Go(t, [at |-> "read", todo |-> cycle[t].todo, group |-> cycle[t].group, ms |-> cycle[t].ms, fitness |-> f])
          /\ IF f = compute_fitness(runs[cycle[t].group]) THEN UNCHANGED evoBudget ELSE SpendEvo("faults", MaxEvoFaults)
    /\ Quiet /\ UNCHANGED <<genome, logged>>

\* evolve_genome_from_fitness reads the genome in one transaction; get_genome answers with
\* the defaults, generation 0 included, when the query fails ...
ReadGenome(t) ==
    /\ cycle[t].at = "read"
    /\ \E old \in {genome[cycle[t].group], DEFAULT_GENOME} :
          /\ \E new \in Evolved(old, cycle[t].fitness, cycle[t].ms) :
                Go(t, [at |-> "write", todo |-> cycle[t].todo, group |-> cycle[t].group, new |-> new])
          /\ IF old = genome[cycle[t].group] THEN UNCHANGED <<excused, evoBudget>>
             ELSE excused' = TRUE /\ SpendEvo("faults", MaxEvoFaults)
    /\ UNCHANGED <<tables, daemon, schedule>>

\* Mutant: the genome is committed before the event is inserted.
WriteSeparately(t) ==
    /\ genome' = [genome EXCEPT ![cycle[t].group] = cycle[t].new]
    /\ \/ logged' = [logged EXCEPT ![cycle[t].group] = @ + 1] /\ UNCHANGED evoBudget
       \/ SpendEvo("faults", MaxEvoFaults) /\ UNCHANGED logged

\* ... and writes it together with the event in another; an error rolls back both.
WriteGenome(t) ==
    \/ /\ genome' = [genome EXCEPT ![cycle[t].group] = cycle[t].new]
       /\ logged' = [logged EXCEPT ![cycle[t].group] = @ + 1]
       /\ UNCHANGED evoBudget
    \/ SpendEvo("faults", MaxEvoFaults) /\ UNCHANGED <<genome, logged>>

Write(t) == cycle[t].at = "write" /\ WriteGenome(t) /\ NextGroup(t) /\ Quiet

EndCycle(t) ==
    /\ cycle[t].at = "group" /\ cycle[t].todo = {}
    /\ Go(t, NoCycle)
    /\ Quiet /\ UNCHANGED <<genome, logged, evoBudget>>

CycleStep(t) ==
    \/ \E g \in EvoGroups : Sample(t, g)
    \/ ValidateGenome(t) \/ Reset(t) \/ Measure(t) \/ ReadGenome(t) \/ Write(t) \/ EndCycle(t)

-----------------------------------------------------------------------------
(* evolution_loop.                                                            *)

Working == {t \in EvoThreads : cycle[t].at # "idle"}

\* The interval is over: a thread starts on the groups that are active.
StartCycle(t) ==
    /\ daemon.at = "waiting" /\ cycle[t].at = "idle"
    /\ t = "second" => cycle["first"].at # "idle"
    /\ SpendEvo("cycles", MaxCycles)
    /\ Go(t, [at |-> "group", todo |-> EvoGroups])
    /\ daemon' = [at |-> "cycle", thread |-> t]
    /\ excused' = (excused \/ Working # {})
    /\ since' = [p \in Passes |-> Min({since[p] + 1, INTERVAL[p]})]
    /\ saved' = [p \in Passes |-> Min({saved[p] + 1, INTERVAL[p]})]
    /\ UNCHANGED <<tables, loaded, early>>

\* The cycle is over, or 300 s are; then the logs are pruned (Inbound!PruneThreats).
EndWait ==
    /\ daemon.at = "cycle"
    /\ daemon' = [at |-> "passes"]
    /\ UNCHANGED <<tables, cycle, schedule, excused, evoBudget>>

\* Mutant: the flag is set and the timestamps are not read.
LoadNothing == since

\* The first loop of a process takes the newest timestamps of the table.
LoadTimestamps == IF loaded THEN since ELSE saved

\* A pass is due.  It records itself for the groups that have recent logs, and counts as
\* done in memory whatever happened.
RunPasses ==
    /\ daemon.at = "passes"
    /\ \E known \in {LoadTimestamps, since}, recorded \in SUBSET Passes :
          LET due == {p \in Passes : known[p] >= INTERVAL[p]}
          IN  /\ IF known = LoadTimestamps THEN UNCHANGED evoBudget ELSE SpendEvo("faults", MaxEvoFaults)
              /\ recorded \subseteq due
              /\ since' = [p \in Passes |-> IF p \in due THEN 0 ELSE known[p]]
              /\ saved' = [p \in Passes |-> IF p \in recorded THEN 0 ELSE saved[p]]
              /\ early' = early \cup (IF known = LoadTimestamps THEN {p \in recorded : saved[p] < INTERVAL[p]} ELSE {})
    /\ loaded' = TRUE
    /\ daemon' = [at |-> "waiting"]
    /\ UNCHANGED <<tables, cycle, excused>>

EvoCrash ==
    /\ SpendEvo("faults", MaxEvoFaults)
    /\ cycle' = [t \in EvoThreads |-> NoCycle]
    /\ daemon' = [at |-> "waiting"]
    /\ since' = INTERVAL /\ loaded' = FALSE
    /\ UNCHANGED <<tables, saved, excused, early>>

\* The row of a genome holds a style this version does not know.
Corrupt(g) ==
    /\ SpendEvo("faults", MaxEvoFaults)
    /\ genome' = [genome EXCEPT ![g].style = BadStyle]
    /\ UNCHANGED <<runs, logged, cycle, daemon, schedule, excused>>

EvoNext ==
    \/ \E g \in EvoGroups, k \in RunKinds : RecordRun(g, k) \/ ExpireRun(g, k)
    \/ \E g \in EvoGroups : Corrupt(g)
    \/ \E t \in EvoThreads : StartCycle(t) \/ CycleStep(t)
    \/ EndWait \/ RunPasses
    \/ EvoCrash

EvoSpec == EvoInit /\ [][EvoNext]_evoVars

-----------------------------------------------------------------------------
(* Properties.                                                                *)

\* However long a group evolves, its formality stays between the two targets of
\* evolve_genome_from_fitness and its depth in [0, 1]: neither creeps to an extreme.
GenomeInRange ==
    \A g \in EvoGroups :
        /\ genome[g].formality \in 500 .. 700 /\ genome[g].depth \in 0 .. 1000
        /\ genome[g].style \in DOMAIN Styles \cup {BadStyle}

\* The log of evolutions is complete: the generation of a group is the number of its events,
\* through failed transactions, crashes and resets of a corrupt genome, unless two cycles
\* overlapped (both read the same generation and one of the two is lost) or get_genome could
\* not read the row (the group starts again from generation 0).
HistoryKept == excused \/ \A g \in EvoGroups : genome[g].generation = logged[g]

\* A restart does not repeat a memory pass before its interval is over, unless the
\* timestamps could not be read.
PassesSpaced == early = {}

\* evolution_loop over any number of cycles, crashes and corrupt rows: genomes stay in
\* range, the log of evolutions is complete, memory passes are spaced.
EvolutionSound == GenomeInRange /\ HistoryKept /\ PassesSpaced

=============================================================================
