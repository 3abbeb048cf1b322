------------------------------- MODULE Reload --------------------------------
(***************************************************************************)
(* Start, hot reload and re-execution of the program: main.go, cmd.Run,    *)
(* server.Start, the gateways' Start and maintenance.StartRuntimeMaintenance. *)
(*                                                                         *)
(* Each cmd.Run is an instance with its own context.  hotReload watches    *)
(* the modification time of the file; when it is newer it cancels the      *)
(* context, sleeps 2 s and starts the next instance.  The instances share  *)
(* one set of addresses, and a listener that cannot have its address ends  *)
(* the process.  What a cancelled transport still does is in here: the     *)
(* reader of its control channel does not look at the context, so it calls *)
(* Restart when the client, told of the end by SG_Closed, hangs up.        *)
(***************************************************************************)
EXTENDS Config

CONSTANTS
    Files,        \* names of what the file may hold when it can be decoded
    Decoded,      \* name -> configuration
    Broken,       \* a file that cannot: malformed, half written, a removed field
    Transports,   \* what a server's transport may be
    Mappings,     \* what may stand in a server's ports
    MaxEdits      \* bound: writes of the file

\* The decoder has put everything into the fields of its types.
ASSUME ReloadAssumption ==
    /\ MaxEdits \in Nat /\ Broken \notin Files
    /\ \A m \in Mappings : /\ m.form \in MappingForms
                           /\ m.lo \in Nat /\ m.hi \in Nat /\ m.parts \in Nat \ {0}
    /\ \A f \in Files :
          /\ Decoded[f].servers \in Seq([name : STRING, transport : Transports,
                                        bind : Addresses, ports : Seq(Mappings)])
          /\ Decoded[f].gateways \in Seq(Elements(Decoded[f].gateways))

Instances == 1..(MaxEdits + 1)

VARIABLES
    file,       \* [mtime, cfg]
    watch,      \* hotReload: [pc, last, seen]
    current,    \* the instance whose context main.go holds
    inst,       \* instance -> [pc, cfg, mtime, live, gw]: gw gateways are started
    link,       \* instance -> server name -> how far its transport is
    bound,      \* listeners that have their address: [inst, owner, kind, at, addr]
    timers,     \* instances that armed an auto restart timer
    proc        \* [st, why, by]: by is what a failed listener met

vars == <<file, watch, current, inst, link, bound, timers, proc>>

Absent == [pc |-> "none", cfg |-> Broken, mtime |-> 0, live |-> FALSE, gw |-> 0]
Loading == [Absent EXCEPT !.pc = "load", !.live = TRUE]
Names == UNION {ServerNames(Decoded[f]) : f \in Files}
Verdicts == [f \in Files |-> ValidateConfig(Decoded[f])]
Overlapping == {f \in Files : SelfOverlap(Decoded[f])}
Up == [st |-> "up", why |-> "none", by |-> {}]
Exited == [Up EXCEPT !.st = "exited"]
NoLinks == [n \in Names |-> "none"]

\* A listener for the at-th of a server's mappings or of the gateways.
Listener(i, owner, kind, at, a) ==
    [inst |-> i, owner |-> owner, kind |-> kind, at |-> at, addr |-> a]
Owners == Names \cup {"gateway"}

TypeOK ==
    /\ file \in [mtime : 0..MaxEdits, cfg : Files \cup {Broken}]
    /\ watch \in [pc : {"start", "watch", "sleep"}, last : 0..MaxEdits, seen : 0..MaxEdits]
    /\ current \in Instances
    /\ inst \in [Instances -> [pc : {"none", "load", "serve"}, gw : Nat,
                   cfg : Files \cup {Broken}, mtime : 0..MaxEdits, live : BOOLEAN]]
    /\ link \in [Instances ->
                   [Names -> {"none", "start", "listen", "linked", "asleep", "gone"}]]
    /\ \A b \in bound : b.inst \in Instances /\ b.owner \in Owners
    /\ timers \subseteq Instances
    /\ proc.st \in {"up", "dead", "exited"} /\ proc.why \in {"none", "config", "bind"}

\* Nothing is left of the process, and the image in its place has state p.
Image(p) ==
    /\ watch' = [pc |-> "start", last |-> 0, seen |-> 0]
    /\ current' = 1
    /\ inst' = [i \in Instances |-> IF i = 1 THEN Loading ELSE Absent]
    /\ link' = [i \in Instances |-> NoLinks]
    /\ bound' = {} /\ timers' = {} /\ proc' = p

Init ==
    /\ \E c \in Files : file = [mtime |-> 0, cfg |-> c]
    /\ watch = [pc |-> "start", last |-> 0, seen |-> 0]
    /\ current = 1
    /\ inst = [i \in Instances |-> IF i = 1 THEN Loading ELSE Absent]
    /\ link = [i \in Instances |-> NoLinks]
    /\ bound = {} /\ timers = {} /\ proc = Up

Running == proc.st = "up"

Dies(why, by) == proc' = [st |-> "dead", why |-> why, by |-> by]

\* The file is written; every write moves its modification time on.
Edit ==
    /\ Running /\ file.mtime < MaxEdits
    /\ \E c \in Files \cup {Broken} : file' = [mtime |-> file.mtime + 1, cfg |-> c]
    /\ UNCHANGED <<watch, current, inst, link, bound, timers, proc>>

-----------------------------------------------------------------------------
(* hotReload.                                                              *)

\* Its first look at the file, in a goroutine beside the first cmd.Run.
HotReloadStarts ==
    /\ Running /\ watch.pc = "start"
    /\ watch' = [watch EXCEPT !.pc = "watch", !.last = file.mtime]
    /\ UNCHANGED <<file, current, inst, link, bound, timers, proc>>

\* A tick that finds a newer file: the context is cancelled, and sleep.
Changed ==
    /\ Running /\ watch.pc = "watch" /\ file.mtime > watch.last
    /\ watch' = [watch EXCEPT !.pc = "sleep", !.seen = file.mtime]
    /\ inst' = [inst EXCEPT ![current].live = FALSE]
    /\ UNCHANGED <<file, current, link, bound, timers, proc>>

\* All that instance i has set going on its own has come to rest: it has loaded
\* its file and started, and its listeners are open no more.
Quiet(i) ==
    /\ inst[i].pc = "serve" /\ inst[i].gw = Len(Decoded[inst[i].cfg].gateways)
    /\ \A n \in Names : link[i][n] # "start"
    /\ \A b \in bound : b.inst # i

\* Mutant: lastModTime is a clock that runs ahead of the file, not the time seen.
WakeTakesClock ==
    /\ Running /\ watch.pc = "sleep" /\ Quiet(current)
    /\ watch' = [watch EXCEPT !.pc = "watch", !.last = MaxEdits]
    /\ current' = current + 1
    /\ inst' = [inst EXCEPT ![current + 1] = Loading]
    /\ UNCHANGED <<file, link, bound, timers, proc>>

\* After 2 s, long enough for the old instance to be quiet.
Wake ==
    /\ Running /\ watch.pc = "sleep" /\ Quiet(current)
    /\ watch' = [watch EXCEPT !.pc = "watch", !.last = watch.seen]
    /\ current' = current + 1
    /\ inst' = [inst EXCEPT ![current + 1] = Loading]
    /\ UNCHANGED <<file, link, bound, timers, proc>>

-----------------------------------------------------------------------------
(* cmd.Run.                                                                *)

\* A server, or a client that knows its remote_addr.
Runnable(cfg) == cfg.servers # <<>> \/ \E c \in Elements(cfg.clients) : c.remote

\* loadConfig, applyDefaults and validateConfig: an error ends the process, and
\* with it the instance before.  Then the timers, which know no context, and the
\* servers; a file without any entry that can run ends the process too.
Load(i) ==
    /\ Running /\ inst[i].pc = "load"
    /\ \/ /\ \/ file.cfg = Broken
             \/ file.cfg # Broken /\ FALSE \in Verdicts[file.cfg]
          /\ Dies("config", {})
          /\ UNCHANGED <<inst, link, timers>>
       \/ /\ file.cfg # Broken /\ TRUE \in Verdicts[file.cfg]
          /\ inst' = [inst EXCEPT ![i] = [@ EXCEPT !.pc = "serve", !.cfg = file.cfg,
                                                   !.mtime = file.mtime]]
          /\ timers' = IF Decoded[file.cfg].auto > 0 THEN timers \cup {i} ELSE timers
          /\ link' = [link EXCEPT ![i] =
                [n \in Names |-> IF n \in ServerNames(Decoded[file.cfg]) THEN "start" ELSE "none"]]
          /\ IF Runnable(Decoded[file.cfg]) THEN UNCHANGED proc ELSE Dies("config", {})
    /\ UNCHANGED <<file, watch, current, bound>>

\* A listener of instance i asks for its address.
Bind(i, owner, kind, at, a) ==
    LET met == {b \in bound : Overlap(b.addr, a)}
    IN  \/ /\ met = {}
           /\ bound' = bound \cup {Listener(i, owner, kind, at, a)}
           /\ UNCHANGED proc
        \/ /\ met # {}
           /\ Dies("bind", met \cup {Listener(i, owner, kind, at, a)})
           /\ UNCHANGED bound

\* The gateways are started one after the other.
StartGateway(i) ==
    /\ Running /\ inst[i].pc = "serve" /\ inst[i].gw < Len(Decoded[inst[i].cfg].gateways)
    /\ Bind(i, "gateway", "gateway", inst[i].gw + 1,
            Decoded[inst[i].cfg].gateways[inst[i].gw + 1].listen)
    /\ inst' = [inst EXCEPT ![i].gw = @ + 1]
    /\ UNCHANGED <<file, watch, current, link, timers>>

\* The end of a context closes what is bound under it.
Release(i) ==
    /\ Running /\ ~inst[i].live
    /\ \E b \in bound : b.inst = i
    /\ bound' = {b \in bound : b.inst # i}
    /\ link' = [link EXCEPT ![i] = [n \in Names |-> IF @[n] = "listen" THEN "gone" ELSE @[n]]]
    /\ UNCHANGED <<file, watch, current, inst, timers, proc>>

-----------------------------------------------------------------------------
(* The transports of an instance.                                          *)

ServerOf(i, n) == CHOOSE s \in Elements(Decoded[inst[i].cfg].servers) : s.name = n

\* Start: the tunnel listener, whether or not the context is cancelled.
TunnelListener(i, n) ==
    /\ Running /\ link[i][n] = "start"
    /\ Bind(i, n, "bind", 0, ServerOf(i, n).bind)
    /\ link' = [link EXCEPT ![i][n] = "listen"]
    /\ UNCHANGED <<file, watch, current, inst, timers>>

\* A client's control channel.
Linked(i, n) ==
    /\ Running /\ link[i][n] = "listen" /\ inst[i].live
    /\ link' = [link EXCEPT ![i][n] = "linked"]
    /\ UNCHANGED <<file, watch, current, inst, bound, timers, proc>>

\* parsePortMappings: then the listeners of the ports, each in a goroutine.  The
\* one with nothing to open is a mapping that the server cannot read.
LocalListener(i, n) ==
    /\ Running /\ link[i][n] = "linked" /\ inst[i].live
    /\ \E k \in DOMAIN ServerOf(i, n).ports :
          LET addrs == Opened(ServerOf(i, n).transport, ServerOf(i, n).ports[k])
          IN  \/ addrs = {} /\ Dies("config", {}) /\ UNCHANGED bound
              \/ \E a \in addrs :
                    /\ Listener(i, n, "port", k, a) \notin bound
                    /\ Bind(i, n, "port", k, a)
    /\ UNCHANGED <<file, watch, current, inst, link, timers>>

\* The control channel ends: the reader calls Restart, also when the context is
\* cancelled and the client has only answered SG_Closed.  The listeners are closed.
Restart(i, n) ==
    /\ Running /\ link[i][n] = "linked"
    /\ link' = [link EXCEPT ![i][n] = "asleep"]
    /\ bound' = {b \in bound : ~(b.inst = i /\ b.owner = n /\ b.kind # "gateway")}
    /\ UNCHANGED <<file, watch, current, inst, timers, proc>>

\* Restart after its 2 s.
StartAgain(i, n) ==
    /\ Running /\ link[i][n] = "asleep"
    /\ link' = [link EXCEPT ![i][n] = "start"]
    /\ UNCHANGED <<file, watch, current, inst, bound, timers, proc>>

-----------------------------------------------------------------------------

\* An auto restart timer runs out: the process image is replaced, or it exits.
ReexecSelf ==
    /\ Running /\ timers # {}
    /\ Image(Up) \/ Image(Exited)
    /\ UNCHANGED file

\* SIGINT or SIGTERM: the context is cancelled, and a second later main returns.
Signal == Running /\ Image(Exited) /\ UNCHANGED file

Transport(i, n) ==
    \/ TunnelListener(i, n) \/ Linked(i, n) \/ LocalListener(i, n)
    \/ Restart(i, n) \/ StartAgain(i, n)

Next ==
    \/ Edit \/ HotReloadStarts \/ Changed \/ Wake \/ ReexecSelf \/ Signal
    \/ \E i \in Instances :
          Load(i) \/ StartGateway(i) \/ Release(i) \/ \E n \in Names : Transport(i, n)

\* Goroutines go on and tickers tick.  Nobody need edit the file, connect, hang
\* up or send a signal, and no timer need run out.
Fairness ==
    /\ WF_vars(HotReloadStarts) /\ WF_vars(Changed) /\ WF_vars(Wake)
    /\ \A i \in Instances : WF_vars(Load(i)) /\ WF_vars(StartGateway(i)) /\ WF_vars(Release(i))
                                /\ \A n \in Names : WF_vars(TunnelListener(i, n))

Spec == Init /\ [][Next]_vars /\ Fairness

-----------------------------------------------------------------------------
(* Properties.                                                             *)

Agreed == MappingsAgree(Transports, Mappings)

\* A configuration that is in force was understood: each of its routes can be
\* resolved, and its servers open their mappings as they were validated.
ConfigUnderstood ==
    \A i \in Instances :
        inst[i].pc = "serve" => Agreed /\ RoutesResolve(Decoded[inst[i].cfg])

\* A listener that was restarted by a transport whose instance is cancelled.
Stale(b) == b.kind = "bind" /\ ~inst[b.inst].live

\* The state is well formed, and a process that dies of a taken address had a
\* configuration in which one server overlaps itself, or a cancelled transport
\* that restarted: the order of validation, cancellation, sleep and binding
\* rules out everything else.
BindFailureExplained ==
    /\ TypeOK
    /\ proc.why = "bind" =>
          \E b \in proc.by : inst[b.inst].cfg \in Overlapping \/ Stale(b)

\* The file was changed after the first load and before hotReload's first look:
\* that change is never loaded.
MissedAtStart == current = 1 /\ inst[1].pc # "load" /\ inst[1].mtime < watch.last

\* As long as the process lives, what runs is again and again what the file says,
\* however edits, reloads and re-executions interleave.
NewestInForce ==
    []<>(~Running \/ MissedAtStart
           \/ (inst[current].live /\ inst[current].pc = "serve" /\ inst[current].mtime = file.mtime))

\* A reload never ends the process by a taken address when the configurations
\* are sound: "dynamic configuration reloading without server restarts".
ReloadSurvives == proc.why # "bind"
=============================================================================
