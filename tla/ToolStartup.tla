----------------------------- MODULE ToolStartup -----------------------------
(***************************************************************************)
(* Start-up and shutdown of the standalone tools, cmd/observer and         *)
(* cmd/tui.  Both load the same modules in the same order, carry on        *)
(* without a module that fails unless it is the first, and run; they       *)
(* differ in what they close on the way out.  Handles are what main or a   *)
(* loader has to close: collections, attached probes, ring-buffer readers  *)
(* and the pin of the process tree map.  What nobody closes stays open     *)
(* until the process ends.                                                 *)
(***************************************************************************)
EXTENDS Naturals, FiniteSets, Sequences, SequencesExt

CONSTANT Programs       \* the tools followed

ASSUME ProgramsAssumption == Programs \subseteq {"observer", "tui"}

VARIABLES program,      \* the tool this process runs
          stage,        \* load, run, closing, returned, or exited by os.Exit
          turn,         \* index of the module being loaded
          tried,        \* probes of that module tried so far
          open,         \* open handles
          lost,         \* open handles no variable refers to
          loaded,       \* modules with a collector
          deferred      \* deferred calls: sequence of sets of handles

toolVars == <<program, stage, turn, tried, open, lost, loaded, deferred>>

-----------------------------------------------------------------------------
(* The loaders: tracepoints they insist on, and probes they can do         *)
(* without.                                                                *)

loadCPU == [required |-> 4, optional |-> 0]
loadMemory == [required |-> 1, optional |-> 1]
loadIO == [required |-> 3, optional |-> 0]
loadNetwork == [required |-> 2, optional |-> 0]
loadSyscall == [required |-> 2, optional |-> 0]
loadExecWithColl == [required |-> 1, optional |-> 0]
loadDNS == [required |-> 6, optional |-> 0]
loadPrivEsc == [required |-> 3, optional |-> 1]
loadEscape == [required |-> 3, optional |-> 0]

Loader == [cpu |-> loadCPU, memory |-> loadMemory, io |-> loadIO,
           network |-> loadNetwork, syscall |-> loadSyscall, exec |-> loadExecWithColl,
           dns |-> loadDNS, privesc |-> loadPrivEsc, escape |-> loadEscape]

Order == <<"cpu", "memory", "io", "network", "syscall", "exec", "lineage", "dns",
           "privesc", "escape">>
TreeUsers == {"dns", "privesc", "escape"}
Security == TreeUsers \cup {"exec", "lineage"}

Module == Order[turn]
Slots(m) == Loader[m].required + Loader[m].optional

Coll(m) == <<"collection", m, 0>>
Probe(m, i) == <<"probe", m, i>>
Reader(m) == <<"reader", m, 0>>
Pin == <<"pin", "lineage", 0>>

ProbesOf(m) == {h \in open : h[1] = "probe" /\ h[2] = m}

\* A previous run may have left its pin.
ToolInit ==
    /\ program \in Programs
    /\ stage = "load" /\ turn = 1 /\ tried = 0
    /\ open \in {{}, {Pin}}
    /\ lost = {} /\ loaded = {} /\ deferred = <<>>

-----------------------------------------------------------------------------
(* Loading.                                                                *)

Loading == stage = "load" /\ turn <= Len(Order)

\* The process tree map is taken from exec's collection by lineage, and given to
\* the modules after it.
Ready(m) ==
    CASE m = "lineage" -> "exec" \in loaded
      [] m \in TreeUsers -> "lineage" \in loaded
      [] OTHER -> TRUE

NextModule == turn' = turn + 1 /\ tried' = 0

\* A module is not loaded without the tree map, nor by the observer if its path
\* is empty.
Skip ==
    /\ Loading /\ tried = 0 /\ Coll(Module) \notin open
    /\ ~Ready(Module) \/ (program = "observer" /\ Module \in Security)
    /\ NextModule
    /\ UNCHANGED <<program, stage, open, lost, loaded, deferred>>

\* LoadCollectionSpec and NewCollection, with the tree map replaced for its users.
NewCollection ==
    /\ Loading /\ Module # "lineage" /\ Ready(Module) /\ Coll(Module) \notin open
    /\ open' = open \cup {Coll(Module)}
    /\ UNCHANGED <<program, stage, turn, tried, lost, loaded, deferred>>

\* attachProbes: one more tracepoint, or one of the probes that may fail.
Attach ==
    /\ Loading /\ Coll(Module) \in open /\ tried < Slots(Module)
    /\ tried' = tried + 1
    /\ \/ open' = open \cup {Probe(Module, tried + 1)}
       \/ tried >= Loader[Module].required /\ UNCHANGED open
    /\ UNCHANGED <<program, stage, turn, lost, loaded, deferred>>

\* What main does about an error, rest being the handles still open: without CPU
\* statistics it exits.
GiveUp(rest) ==
    IF Module = "cpu"
    THEN /\ stage' = "exited" /\ open' = {} /\ lost' = {} /\ deferred' = <<>>
         /\ UNCHANGED <<turn, tried>>
    ELSE /\ open' = rest /\ NextModule
         /\ UNCHANGED <<stage, deferred>>

\* The collection cannot be loaded, or exec has no tree map.
LoadError ==
    /\ Loading /\ Ready(Module) /\ tried = 0 /\ Coll(Module) \notin open
    /\ GiveUp(open)
    /\ Module # "cpu" => UNCHANGED lost
    /\ UNCHANGED <<program, loaded>>

\* A tracepoint that must attach does not: the collection is closed, and the
\* tracepoints attached before it are dropped with attachProbes' result.
AttachError ==
    /\ Loading /\ Coll(Module) \in open /\ tried < Loader[Module].required
    /\ GiveUp(open \ {Coll(Module)})
    /\ Module # "cpu" => lost' = lost \cup ProbesOf(Module)
    /\ UNCHANGED <<program, loaded>>

\* A map is missing, or its ring buffer cannot be opened.
CollectorError ==
    /\ Loading /\ Coll(Module) \in open /\ tried = Slots(Module)
    /\ GiveUp(open \ (ProbesOf(Module) \cup {Coll(Module)}))
    /\ Module # "cpu" => UNCHANGED lost
    /\ UNCHANGED <<program, loaded>>

\* What the observer's main defers for a loaded module, in order.
ObserverDefers(m) ==
    CASE m = "cpu" -> <<ProbesOf(m), {Coll(m)}>>
      [] m = "exec" -> <<{Reader(m)}, ProbesOf(m), {Coll(m)}>>
      [] OTHER -> <<{Reader(m)}, ProbesOf(m)>>

\* The TUI defers the probes of all modules in one call, once all are loaded.
TuiDefers(m) == IF m = "exec" THEN <<{Coll(m)}>> ELSE <<>>

Defers(m) == IF program = "observer" THEN ObserverDefers(m) ELSE TuiDefers(m)

\* The collector is created; only CPU's has no ring buffer.
NewCollector ==
    /\ Loading /\ Coll(Module) \in open /\ tried = Slots(Module)
    /\ loaded' = loaded \cup {Module}
    /\ deferred' = deferred \o Defers(Module)
    /\ open' = IF Module = "cpu" THEN open ELSE open \cup {Reader(Module)}
    /\ NextModule
    /\ UNCHANGED <<program, stage, lost>>

\* loadLineageFromExec: no probe and no ring buffer of its own.  An old pin is
\* removed first; pinning may fail.
LoadLineage ==
    /\ Loading /\ Module = "lineage" /\ Ready(Module)
    /\ loaded' = loaded \cup {Module}
    /\ open' \in {open \cup {Pin}, open \ {Pin}}
    /\ NextModule
    /\ UNCHANGED <<program, stage, lost, deferred>>

-----------------------------------------------------------------------------
(* Running and closing.                                                    *)

\* Mutation: the links are handed to the deferred call before the security modules
\* add theirs.
Kept_Core == {h \in open : h[1] = "probe" /\ h[2] \in loaded \ Security}

\* The links of all modules the TUI has loaded.
Kept == {h \in open : h[1] = "probe" /\ h[2] \in loaded}

\* All modules had their turn; the last deferred call is added.
Run ==
    /\ stage = "load" /\ turn > Len(Order)
    /\ stage' = "run"
    /\ deferred' = Append(deferred, IF program = "observer" THEN {Pin} ELSE Kept)
    /\ UNCHANGED <<program, turn, tried, open, lost, loaded>>

\* A signal, or the user, ends the loop.
Stop ==
    /\ stage = "run"
    /\ stage' = "closing"
    /\ UNCHANGED <<program, turn, tried, open, lost, loaded, deferred>>

\* The terminal fails: os.Exit runs no deferred call, the kernel closes the rest.
RunError ==
    /\ stage = "run" /\ program = "tui"
    /\ stage' = "exited" /\ open' = {} /\ lost' = {} /\ deferred' = <<>>
    /\ UNCHANGED <<program, turn, tried, loaded>>

\* main returns: one deferred call.
CloseNext ==
    /\ stage = "closing" /\ deferred # <<>>
    /\ open' = open \ Last(deferred)
    /\ deferred' = Front(deferred)
    /\ UNCHANGED <<program, stage, turn, tried, lost, loaded>>

Return ==
    /\ stage = "closing" /\ deferred = <<>>
    /\ stage' = "returned"
    /\ UNCHANGED <<program, turn, tried, open, lost, loaded, deferred>>

ToolNext ==
    \/ Skip \/ NewCollection \/ Attach \/ LoadError \/ AttachError
    \/ CollectorError \/ NewCollector \/ LoadLineage
    \/ Run \/ Stop \/ RunError \/ CloseNext \/ Return

-----------------------------------------------------------------------------
(* Properties.                                                             *)

\* The modules whose loader returns the collection to main.
Returned == IF program = "observer" THEN {"cpu", "exec"} ELSE {"exec"}

\* However far each module got at start-up, when main has returned what is still open
\* is in one of two groups.  Of the modules that ran, no probe is attached, and main
\* has closed the collections it was given; the observer has closed its readers and
\* removed the pin.  What it lost sight of are probes of modules that did not run.
LetGo ==
    /\ stage = "returned" =>
          \A h \in open \ lost :
              \/ h[1] = "collection" /\ h[2] \in loaded \ Returned
              \/ program = "tui" /\ h[1] \in {"reader", "pin"}
    /\ lost \subseteq open
    /\ \A h \in lost : h[1] = "probe" /\ h[2] \notin loaded
=============================================================================
