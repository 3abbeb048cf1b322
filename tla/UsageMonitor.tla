---------------------------- MODULE UsageMonitor ----------------------------
(***************************************************************************)
(* The usage monitor, internal/web/sniffer.go: byte counts per port are    *)
(* collected in memory and merged into the file sniffer_log on every tick, *)
(* by a goroutine of its own.  Several monitors share one file: every      *)
(* server has one, sniffer_log defaults to the same name for all of them,  *)
(* and Restart of a transport replaces its monitor by a new one while      *)
(* connections that are still open go on counting in the old one.          *)
(*                                                                         *)
(* totalTraffic, the system statistics and the formatting are display only *)
(* and left out.                                                           *)
(***************************************************************************)
EXTENDS Integers, FiniteSets, Functions

CONSTANTS
    Monitors,   \* Usage objects of one process
    Savers,     \* goroutines of saveUsageData that may be under way at once
    Viewers,    \* HTTP requests that may be in getUsageFromFile at once
    Ports,
    MaxTraffic, \* bound: units of traffic that are counted
    MaxFaults   \* bound: failed opens and writes, crashes of the process

ASSUME UsageAssumption ==
    /\ IsFiniteSet(Monitors) /\ IsFiniteSet(Savers) /\ IsFiniteSet(Viewers)
    /\ IsFiniteSet(Ports)
    /\ MaxTraffic \in Nat /\ MaxFaults \in Nat
    /\ "none" \notin Monitors

VARIABLES
    state,     \* [Monitors -> {"new", "running", "stopped"}]
    dataStore, \* [Monitors -> Counts]: the counts in memory
    file,      \* sniffer_log: whether it is there, and the counts in it
    saver,     \* [Savers -> calls of saveUsageData]
    viewer,    \* [Viewers -> {"idle", "create", "write"}]
    traffic,   \* history: what was counted for each port
    clean,     \* history: no two users of the file overlapped, and no fault
    faults

vars == <<state, dataStore, file, saver, viewer, traffic, clean, faults>>

Counts == [Ports -> Nat]
Zero == [p \in Ports |-> 0]
Plus(c, d) == [p \in Ports |-> c[p] + d[p]]

Missing == [is |-> "missing", counts |-> Zero]
Truncated == [is |-> "truncated", counts |-> Zero]
Holding(c) == [is |-> "written", counts |-> c]

\* A call of saveUsageData.
Call(pc, of, existing, current) ==
    [pc |-> pc, of |-> of, existing |-> existing, current |-> current]
Idle == Call("idle", "none", Zero, Zero)

Init ==
    /\ state = [m \in Monitors |-> "new"]
    /\ dataStore = [m \in Monitors |-> Zero]
    /\ file = Missing
    /\ saver = [s \in Savers |-> Idle]
    /\ viewer = [v \in Viewers |-> "idle"]
    /\ traffic = Zero
    /\ clean = TRUE
    /\ faults = 0

Saving == {s \in Savers : saver[s].pc # "idle"}
Viewing == {v \in Viewers : viewer[v] # "idle"}
FileInUse == Saving # {} \/ Viewing # {}

Fault ==
    /\ faults < MaxFaults
    /\ faults' = faults + 1
    /\ clean' = FALSE

-----------------------------------------------------------------------------
(* The monitor and what is counted.                                        *)

\* Monitor: the ticker starts, whether or not the web port can be bound.
Start(m) ==
    /\ state[m] = "new"
    /\ state' = [state EXCEPT ![m] = "running"]
    /\ UNCHANGED <<dataStore, file, saver, viewer, traffic, clean, faults>>

\* shutdownCtx is done (Restart or hot reload): no more ticks.  There is no
\* last save, and a save that is under way goes on.
Stop(m) ==
    /\ state[m] = "running"
    /\ state' = [state EXCEPT ![m] = "stopped"]
    /\ UNCHANGED <<dataStore, file, saver, viewer, traffic, clean, faults>>

\* AddOrUpdatePort, under mu.
AddOrUpdatePort(m, p) ==
    /\ state[m] # "new"
    /\ SumFunction(traffic) < MaxTraffic
    /\ traffic' = [traffic EXCEPT ![p] = @ + 1]
    /\ dataStore' = [dataStore EXCEPT ![m][p] = @ + 1]
    /\ UNCHANGED <<state, file, saver, viewer, clean, faults>>

-----------------------------------------------------------------------------
(* saveUsageData.                                                          *)

\* Mutant: a file that does not exist yet is an error like any other.
TickNeedsFile(s, m) ==
    /\ state[m] = "running" /\ saver[s].pc = "idle"
    /\ file.is = "written"
    /\ saver' = [saver EXCEPT ![s] = Call("read", m, file.counts, Zero)]
    /\ clean' = (clean /\ ~FileInUse)
    /\ UNCHANGED <<state, dataStore, file, viewer, traffic, faults>>

\* A tick starts the goroutine, which reads the file.  Nothing decodable in
\* the file ends the call here, before any count is taken from memory.
Tick(s, m) ==
    /\ state[m] = "running" /\ saver[s].pc = "idle"
    /\ file # Truncated
    /\ saver' = [saver EXCEPT ![s] = Call("read", m, file.counts, Zero)]
    /\ clean' = (clean /\ ~FileInUse)
    /\ UNCHANGED <<state, dataStore, file, viewer, traffic, faults>>

\* Mutant: the counts stay in memory.
CollectKeeps(s) ==
    /\ saver[s].pc = "read"
    /\ saver' = [saver EXCEPT ![s] = Call("merged", @.of, @.existing, dataStore[@.of])]
    /\ UNCHANGED <<state, dataStore, file, viewer, traffic, clean, faults>>

\* collectUsageDataFromSyncMap, under mu, and the merge with what was read.
Collect(s) ==
    /\ saver[s].pc = "read"
    /\ saver' = [saver EXCEPT ![s] = Call("merged", @.of, @.existing, dataStore[@.of])]
    /\ dataStore' = [dataStore EXCEPT ![saver[s].of] = Zero]
    /\ UNCHANGED <<state, file, viewer, traffic, clean, faults>>

\* os.WriteFile, first half: the file is opened and truncated.
OpenForWrite(s) ==
    /\ saver[s].pc = "merged"
    /\ saver' = [saver EXCEPT ![s] = Call("write", @.of, @.existing, @.current)]
    /\ file' = Truncated
    /\ UNCHANGED <<state, dataStore, viewer, traffic, clean, faults>>

\* It cannot be opened: the counts taken from memory are gone.
OpenFails(s) ==
    /\ saver[s].pc = "merged"
    /\ Fault
    /\ saver' = [saver EXCEPT ![s] = Idle]
    /\ UNCHANGED <<state, dataStore, file, viewer, traffic>>

\* os.WriteFile, second half.  Of two writers the last one wins.
Write(s) ==
    /\ saver[s].pc = "write"
    /\ file' = Holding(Plus(saver[s].existing, saver[s].current))
    /\ saver' = [saver EXCEPT ![s] = Idle]
    /\ UNCHANGED <<state, dataStore, viewer, traffic, clean, faults>>

\* The disk is full: the file stays as it is.
WriteFails(s) ==
    /\ saver[s].pc = "write"
    /\ Fault
    /\ saver' = [saver EXCEPT ![s] = Idle]
    /\ UNCHANGED <<state, dataStore, file, viewer, traffic>>

-----------------------------------------------------------------------------
(* getUsageFromFile, called by the web pages.                              *)

\* os.Stat finds no file.  (With a file the call only reads.)
View(v) ==
    /\ viewer[v] = "idle" /\ file = Missing
    /\ viewer' = [viewer EXCEPT ![v] = "create"]
    /\ clean' = (clean /\ ~FileInUse)
    /\ UNCHANGED <<state, dataStore, file, saver, traffic, faults>>

\* O_CREATE|O_TRUNC: also a file that was written in between is truncated.
CreateFile(v) ==
    /\ viewer[v] = "create"
    /\ viewer' = [viewer EXCEPT ![v] = "write"]
    /\ file' = Truncated
    /\ UNCHANGED <<state, dataStore, saver, traffic, clean, faults>>

\* Mutant: the new file is left without the "null" that decodes to no counts.
WriteNullSkipped(v) ==
    /\ viewer[v] = "write"
    /\ viewer' = [viewer EXCEPT ![v] = "idle"]
    /\ UNCHANGED <<state, dataStore, file, saver, traffic, clean, faults>>

WriteNull(v) ==
    /\ viewer[v] = "write"
    /\ viewer' = [viewer EXCEPT ![v] = "idle"]
    /\ file' = Holding(Zero)
    /\ UNCHANGED <<state, dataStore, saver, traffic, clean, faults>>

\* The file cannot be created, or "null" not be written to it.
ViewFails(v) ==
    /\ viewer[v] # "idle"
    /\ Fault
    /\ viewer' = [viewer EXCEPT ![v] = "idle"]
    /\ UNCHANGED <<state, dataStore, file, saver, traffic>>

-----------------------------------------------------------------------------
\* The process dies (also by auto_restart_interval, which re-executes it)
\* and is started again: only the file is left.
Crash ==
    /\ Fault
    /\ state' = [m \in Monitors |-> "new"]
    /\ dataStore' = [m \in Monitors |-> Zero]
    /\ saver' = [s \in Savers |-> Idle]
    /\ viewer' = [v \in Viewers |-> "idle"]
    /\ UNCHANGED <<file, traffic>>

Save(s) ==
    Collect(s) \/ OpenForWrite(s) \/ OpenFails(s) \/ Write(s) \/ WriteFails(s)

Next ==
    \/ \E m \in Monitors : Start(m) \/ Stop(m)
    \/ \E m \in Monitors, p \in Ports : AddOrUpdatePort(m, p)
    \/ \E s \in Savers, m \in Monitors : Tick(s, m)
    \/ \E s \in Savers : Save(s)
    \/ \E v \in Viewers : View(v) \/ CreateFile(v) \/ WriteNull(v) \/ ViewFails(v)
    \/ Crash

(***************************************************************************)
(* Calls that have started go on.  The ticker of a monitor keeps firing,   *)
(* and not every tick falls into the moment in which somebody has the file *)
(* truncated (strong fairness: 15 s against the time of one write).        *)
(***************************************************************************)
Fairness ==
    /\ \A m \in Monitors : SF_vars(\E s \in Savers : Tick(s, m))
    /\ \A s \in Savers : WF_vars(Save(s))
    /\ \A v \in Viewers : WF_vars(CreateFile(v) \/ WriteNull(v))

Spec == Init /\ [][Next]_vars /\ Fairness

-----------------------------------------------------------------------------
(* Properties.                                                             *)

\* Counts stay natural numbers, and a call of saveUsageData belongs to a
\* monitor as long as it is under way.
TypeOK ==
    /\ state \in [Monitors -> {"new", "running", "stopped"}]
    /\ dataStore \in [Monitors -> Counts]
    /\ file \in [is : {"missing", "truncated", "written"}, counts : Counts]
    /\ saver \in [Savers -> [pc : {"idle", "read", "merged", "write"},
                             of : Monitors \cup {"none"},
                             existing : Counts, current : Counts]]
    /\ \A s \in Savers : saver[s].pc # "idle" => saver[s].of \in Monitors
    /\ viewer \in [Viewers -> {"idle", "create", "write"}]
    /\ traffic \in Counts /\ clean \in BOOLEAN /\ faults \in Nat

\* What is in memory or in the hands of a saveUsageData, for port p.
Unsaved(p) ==
    SumFunction([m \in Monitors |-> dataStore[m][p]])
        + SumFunction([s \in Savers |-> saver[s].current[p]])

\* No interleaving of savers, viewers, crashes and failed writes makes the
\* log show more than was transferred: whichever version of the file wins,
\* nothing that is still to be added to it has been added before.
NeverOvercounts ==
    \A p \in Ports :
        /\ file.counts[p] + Unsaved(p) <= traffic[p]
        /\ \A s \in Savers : saver[s].existing[p] + Unsaved(p) <= traffic[p]

\* The counts on which the next version of the file will be based.
Base ==
    IF file = Truncated /\ \E s \in Savers : saver[s].pc = "write"
    THEN saver[CHOOSE s \in Savers : saver[s].pc = "write"].existing
    ELSE file.counts

\* As long as the users of the file do not overlap and no write fails,
\* nothing is lost: the file, the memory and the save under way together
\* hold exactly what was transferred, over restarts of the monitors as well.
NothingLost ==
    clean => \A p \in Ports : Base[p] + Unsaved(p) = traffic[p]

\* The accounts of the file, the memory and the calls under way: whole numbers
\* for every port, never more than was transferred, and exactly that as long as
\* nobody overlaps and nothing fails.
Accounting == TypeOK /\ NeverOvercounts /\ NothingLost

\* A file in which nothing can be decoded makes every later save return early.
\* Overlapping savers and viewers never leave one behind; only a failed
\* write, or a crash in the middle of one, does.
FileStaysDecodable ==
    file = Truncated /\ faults = 0 =>
        \/ \E s \in Savers : saver[s].pc = "write"
        \/ \E v \in Viewers : viewer[v] = "write"

\* What a running monitor has counted does not stay in memory.
UsageIsSaved ==
    \A m \in Monitors :
        (dataStore[m] # Zero)
            ~> (dataStore[m] = Zero \/ state[m] # "running" \/ faults > 0)
=============================================================================
