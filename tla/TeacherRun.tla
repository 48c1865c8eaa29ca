----------------------------- MODULE TeacherRun -----------------------------
(***************************************************************************)
(* The overnight teacher run of data-gen: orchestrator.py drives chunks of *)
(* generate.py on the one node its table NODES lists, against a vLLM       *)
(* server it restarts per chunk.                                           *)
(*                                                                         *)
(* generate.py appends one JSON line per finished request to an output     *)
(* file, through a buffer whose rows reach the file in whole or in part,   *)
(* and skips on its next run every request_id it finds there.  It runs     *)
(* over ssh, so it outlives an orchestrator that dies and an ssh           *)
(* connection that drops; a later generate may then append beside it.      *)
(***************************************************************************)
EXTENDS Integers, Sequences, FiniteSets, Functions

CONSTANTS
  NumPrompts,    \* prompts in the node's prompt file
  ChunkSize,     \* --chunk-size, passed on as --max-requests
  TotalPerNode,  \* --total-per-node
  Concurrency,   \* --concurrency: size of the semaphore
  FlushEvery,    \* --flush-every
  MaxGens,       \* bound: generate processes ever started
  MaxLaunches,   \* bound: orchestrator processes ever started
  MaxFaults      \* bound: generates killed or abandoned, orchestrators
                 \* killed or hung, servers and line counts lost and
                 \* SIGINTs, taken together

ASSUME TeacherRunAssumption ==
  /\ {NumPrompts, MaxGens, MaxLaunches, MaxFaults} \subseteq Nat
  /\ {ChunkSize, TotalPerNode, Concurrency, FlushEvery} \subseteq Nat \ {0}

VARIABLES
  answers,     \* answers[p]: readable lines of prompt p without http_error
  errors,      \* errors[p]: readable lines of prompt p with http_error
  garbled,     \* lines that are no JSON
  tail,        \* what follows the last newline: whose part of a row
  bare,        \* the row there that lacks its newline only, as a set
  torn,        \* whose character the file ends in the middle of
  broken,      \* a character was cut and its rest never followed
  gens,        \* gens[g]: the g-th generate process
  vllm,        \* the server on port 8000 answers
  phase,       \* where the orchestrator is; "off": none is alive;
               \* "hung": in a call that does not return
  chunk,       \* chunk_id
  before,      \* what count_lines returned before the chunk
  started,     \* ok of run_chunk
  fails,       \* consecutive_fails
  base,        \* history: lines when the orchestrator began
  blind,       \* history: its chunks whose lines before were not counted
  exit,        \* how the last orchestrator ended
  launches, kills, orphans, outages, sigints, mishaps,  \* how often
  coldFails,   \* history: a chunk's server did not come up
  overlapped   \* history: a generate started while another was alive

output  == <<answers, errors, garbled, tail, bare, torn, broken>>
faults  == <<kills, orphans, outages, sigints, mishaps>>
history == <<base, blind, coldFails, overlapped>>
control == <<chunk, before, started, fails>>
vars    == <<output, gens, vllm, phase, control, exit, launches, faults,
             history>>

Prompts == 1..NumPrompts       \* in file order
Gens    == 1..MaxGens          \* in order of start
FaultsLeft == kills + orphans + outages + sigints + mishaps < MaxFaults
NChunks == (TotalPerNode + ChunkSize - 1) \div ChunkSize
Clean   == 0                   \* the file ends with a newline
Mixed   == MaxGens + 1         \* it ends with pieces of several rows
Row     == [id : Prompts, ok : BOOLEAN]
Parts   == {"none", "piece", "char", "bare"}   \* of a row, see Spill

\* A process not yet started, and one that has ended.
Unborn == [alive |-> FALSE, born |-> FALSE, todo |-> {}, flight |-> {},
           buffer |-> <<>>, cut |-> FALSE, completed |-> 0, stop |-> FALSE]
Dead == [Unborn EXCEPT !.born = TRUE]

\* wc -l counts newlines, whatever the lines hold.
Lines == SumFunction(answers) + SumFunction(errors) + garbled

\* count_lines() is that number, or 0 when anything fails.
Counted == {Lines} \cup {n \in {0} : FaultsLeft}
Missed(n) == IF n = Lines THEN 0 ELSE 1

\* The lines of prompt p that json.loads takes: the last needs no newline.
Readable(p) ==
  answers[p] + errors[p] + (IF \E r \in bare : r.id = p THEN 1 ELSE 0)

\* Decoding the file fails wherever it stops short of a character.
Undecodable == torn # Clean \/ broken

\* The request_ids --skip-completed finds: those of every readable line.
\* Variant: lines with an http_error are left for a retry.
CompletedIds_AnsweredOnly == {p \in Prompts : answers[p] > 0}
CompletedIds == {p \in Prompts : Readable(p) > 0}

\* The prompts of one invocation: the first of those left, capped to
\* --max-requests.  Variant: the slice stops one short.
Before(S, p)    == {q \in S : q < p}
Capped_Short(S) == {p \in S : Cardinality(Before(S, p)) < ChunkSize - 1}
Capped(S) == {p \in S : Cardinality(Before(S, p)) < ChunkSize}
Batch == Capped(Prompts \ CompletedIds)

\* consecutive_fails after a chunk.  Variants: it is set, not incremented;
\* it goes down again by one.
FailsAfter_Down(failed) == IF failed THEN fails + 1 ELSE fails - 1
FailsAfter_Set(failed) == IF failed THEN 1 ELSE 0
FailsAfter(failed) == IF failed THEN fails + 1 ELSE 0

\* A task may pass the semaphore.  Variant: not once SIGINT was received.
MayPass_NotStopped(g) == Cardinality(gens[g].flight) < Concurrency
                         /\ ~gens[g].stop
MayPass(g) == Cardinality(gens[g].flight) < Concurrency

Init ==
  /\ answers = [p \in Prompts |-> 0]
  /\ errors  = [p \in Prompts |-> 0]
  /\ garbled = 0
  /\ tail = Clean /\ bare = {} /\ torn = Clean /\ broken = FALSE
  /\ gens = [g \in Gens |-> Unborn]
  /\ vllm = FALSE
  /\ phase = "off"
  /\ chunk = 0 /\ before = 0 /\ started = FALSE /\ fails = 0
  /\ exit = "none"
  /\ launches = 0 /\ kills = 0 /\ orphans = 0 /\ outages = 0
  /\ sigints = 0 /\ mishaps = 0
  /\ base = 0 /\ blind = 0 /\ coldFails = FALSE /\ overlapped = FALSE

-----------------------------------------------------------------------------
(* generate.py                                                             *)

\* Process g moves the first n rows of its buffer to the file, and of the
\* row after them nothing, a piece, a piece that ends within a character, or
\* all but the newline.  The first row is readable only if nothing else got
\* in front of it or into it.
Spill(g, buffer, n, part) ==
  LET whole  == tail = (IF gens[g].cut THEN g ELSE Clean)
      firsts == IF whole THEN 1 ELSE 2
      fresh  == n > 0 \/ whole       \* the last line is g's alone
      wrote  == n > 0 \/ part # "none"
      Count(p, ok) == Cardinality(
        {i \in firsts..n : buffer[i] = [id |-> p, ok |-> ok]})
  IN  /\ answers' = [p \in Prompts |-> answers[p] + Count(p, TRUE)]
      /\ errors'  = [p \in Prompts |-> errors[p] + Count(p, FALSE)]
      /\ garbled' = IF n > 0 /\ ~whole THEN garbled + 1 ELSE garbled
      /\ tail' = CASE part # "none" /\ fresh   -> g
                   [] part # "none" /\ ~fresh  -> Mixed
                   [] part = "none" /\ n > 0   -> Clean
                   [] OTHER                    -> tail
      /\ bare' = CASE part = "bare" /\ fresh   -> {buffer[n + 1]}
                   [] ~wrote                   -> bare
                   [] OTHER                    -> {}
      /\ torn' = CASE part = "char"            -> g
                   [] ~wrote                   -> torn
                   [] OTHER                    -> Clean
      /\ broken' = (broken \/ (wrote /\ torn \notin {Clean, g}))

\* A task passes the semaphore, in file order, and posts its request.
Send(g) ==
  /\ gens[g].alive
  /\ \E p \in gens[g].todo :
       /\ Before(gens[g].todo, p) = {}
       /\ MayPass(g)
       /\ gens' = [gens EXCEPT ![g].todo = @ \ {p},
                               ![g].flight = @ \cup {p}]
  /\ UNCHANGED <<output, vllm, phase, control, exit, launches, faults,
                 history>>

\* A request ends, answered only by a live server, and its row is written;
\* every FlushEvery-th row empties the buffer.
\* Variant: a flush leaves out the newline of its last row.
Complete_NoNewline(g, p, ok) ==
  LET buffer == Append(gens[g].buffer, [id |-> p, ok |-> ok])
      flush  == (gens[g].completed + 1) % FlushEvery = 0
  IN  /\ gens[g].alive /\ p \in gens[g].flight
      /\ ok => vllm
      /\ gens' = [gens EXCEPT ![g].flight = @ \ {p},
                              ![g].completed = (@ + 1) % FlushEvery,
                              ![g].buffer = IF flush THEN <<>> ELSE buffer,
                              ![g].cut = @ /\ ~flush]
      /\ IF flush THEN Spill(g, buffer, Len(buffer) - 1, "bare")
                  ELSE UNCHANGED output
      /\ UNCHANGED <<vllm, phase, control, exit, launches, faults, history>>
Complete(g, p, ok) ==
  LET buffer == Append(gens[g].buffer, [id |-> p, ok |-> ok])
      flush  == (gens[g].completed + 1) % FlushEvery = 0
  IN  /\ gens[g].alive /\ p \in gens[g].flight
      /\ ok => vllm
      /\ gens' = [gens EXCEPT ![g].flight = @ \ {p},
                              ![g].completed = (@ + 1) % FlushEvery,
                              ![g].buffer = IF flush THEN <<>> ELSE buffer,
                              ![g].cut = @ /\ ~flush]
      /\ IF flush THEN Spill(g, buffer, Len(buffer), "none")
                  ELSE UNCHANGED output
      /\ UNCHANGED <<vllm, phase, control, exit, launches, faults, history>>

\* The buffer is full: some of its bytes go to the file.
Overflow(g) ==
  /\ gens[g].alive
  /\ \E n \in 0..Len(gens[g].buffer), part \in Parts :
       /\ IF part = "none" THEN n > 0 ELSE n < Len(gens[g].buffer)
       /\ Spill(g, gens[g].buffer, n, part)
       /\ gens' = [gens EXCEPT
            ![g].buffer = SubSeq(@, n + 1, Len(@)),
            ![g].cut = (part # "none")]
  /\ UNCHANGED <<vllm, phase, control, exit, launches, faults, history>>

\* All tasks are done: the file is flushed and closed, the process ends.
Close(g) ==
  /\ gens[g].alive /\ gens[g].todo = {} /\ gens[g].flight = {}
  /\ Spill(g, gens[g].buffer, Len(gens[g].buffer), "none")
  /\ gens' = [gens EXCEPT ![g] = Dead]
  /\ UNCHANGED <<vllm, phase, control, exit, launches, faults, history>>

\* SIGINT sets stop_event.  Its only reader, the loop that creates the
\* tasks, has no await, so the handler runs after all tasks exist.
Interrupt(g) ==
  /\ gens[g].alive /\ ~gens[g].stop
  /\ FaultsLeft
  /\ sigints' = sigints + 1
  /\ gens' = [gens EXCEPT ![g].stop = TRUE]
  /\ UNCHANGED <<output, vllm, phase, control, exit, launches, kills,
                 orphans, outages, mishaps, history>>

\* The process is killed: its buffer is lost.
KillGenerate(g) ==
  /\ gens[g].alive
  /\ FaultsLeft
  /\ kills' = kills + 1
  /\ gens' = [gens EXCEPT ![g] = Dead]
  /\ UNCHANGED <<output, vllm, phase, control, exit, launches, orphans,
                 outages, sigints, mishaps, history>>

\* The server dies on its own (out of memory).
VllmDies ==
  /\ vllm
  /\ FaultsLeft
  /\ outages' = outages + 1
  /\ vllm' = FALSE
  /\ UNCHANGED <<output, gens, phase, control, exit, launches, kills,
                 orphans, sigints, mishaps, history>>

-----------------------------------------------------------------------------
(* orchestrator.py                                                         *)

Born    == {g \in Gens : gens[g].born}
Alive   == {g \in Gens : gens[g].alive}
Current == Cardinality(Born)     \* the generate started last

\* main returns or exits; its locals are gone.
End(how) ==
  /\ phase' = "off" /\ exit' = how
  /\ chunk' = 0 /\ before' = 0 /\ started' = FALSE /\ fails' = 0

Launch ==
  /\ phase = "off" /\ launches < MaxLaunches
  /\ launches' = launches + 1
  /\ \/ phase' = "between" /\ exit' = "none" /\ UNCHANGED control
     \/ End("no_space")
  /\ base' = Lines /\ blind' = 0
  /\ UNCHANGED <<output, gens, vllm, faults, coldFails, overlapped>>

\* The shared filesystem has too little room left for another chunk.
NoSpace ==
  /\ phase = "between" /\ chunk < NChunks
  /\ End("no_space")
  /\ UNCHANGED <<output, gens, vllm, launches, faults, history>>

\* Lines are counted, then the old server is killed and a new one started.
StartChunk ==
  /\ phase = "between" /\ chunk < NChunks
  /\ \E n \in Counted :
       /\ before' = n
       /\ blind' = blind + Missed(n) /\ mishaps' = mishaps + Missed(n)
  /\ vllm' = FALSE
  /\ phase' = "startup"
  /\ UNCHANGED <<output, gens, chunk, started, fails, exit, launches, kills,
                 orphans, outages, sigints, base, coldFails, overlapped>>

\* No "startup complete" in time, or an unhealthy server: it is stopped.
StartupFails ==
  /\ phase = "startup"
  /\ started' = FALSE
  /\ coldFails' = TRUE
  /\ vllm' = FALSE
  /\ phase' = "count"
  /\ UNCHANGED <<output, gens, chunk, before, fails, exit, launches, faults,
                 base, blind, overlapped>>

\* The server is healthy and generate starts: it reads the output file,
\* takes the prompts that are not in it, and opens it to append.  Where the
\* file cannot be decoded it ends at once: only bad JSON is skipped.
RunGenerate ==
  /\ phase = "startup"
  /\ Current < MaxGens
  /\ gens' = [gens EXCEPT ![Current + 1] =
                IF Undecodable THEN Dead
                ELSE [Dead EXCEPT !.alive = TRUE, !.todo = Batch]]
  /\ overlapped' = (overlapped \/ (Alive # {} /\ ~Undecodable))
  /\ vllm' = TRUE
  /\ started' = TRUE
  /\ phase' = "wait"
  /\ UNCHANGED <<output, chunk, before, fails, exit, launches, faults, base,
                 blind, coldFails>>

\* run_chunk stops the server and returns.
LeaveChunk == vllm' = FALSE /\ phase' = "count"

\* generate ended, whatever its exit status: p.wait() returns.
WaitReturns ==
  /\ phase = "wait" /\ ~gens[Current].alive
  /\ LeaveChunk
  /\ UNCHANGED <<output, gens, control, exit, launches, faults, history>>

\* ssh loses its connection: p.wait() returns while generate goes on.
SshDrops ==
  /\ phase = "wait" /\ gens[Current].alive
  /\ FaultsLeft
  /\ orphans' = orphans + 1
  /\ LeaveChunk
  /\ UNCHANGED <<output, gens, control, exit, launches, kills, outages,
                 sigints, mishaps, history>>

\* Lines are counted again; a second failed chunk in a row ends the run.
CountChunk ==
  \E after \in Counted :
    LET failed == ~started \/ after - before < ChunkSize \div 2
    IN  /\ phase = "count"
        /\ IF FailsAfter(failed) >= 2
           THEN End("bail_out")
           ELSE /\ phase' = "between" /\ exit' = exit
                /\ chunk' = chunk + 1 /\ fails' = FailsAfter(failed)
                /\ before' = 0 /\ started' = FALSE
        /\ mishaps' = mishaps + Missed(after)
        /\ UNCHANGED <<output, gens, vllm, launches, kills, orphans, outages,
                       sigints, history>>

AllChunksDone ==
  /\ phase = "between" /\ chunk = NChunks
  /\ End("complete")
  /\ UNCHANGED <<output, gens, vllm, launches, faults, history>>

\* A call does not return: no ssh and no wait has a timeout, but the one of
\* health_check, whose expiry ends the orchestrator.
Hang ==
  /\ phase \notin {"off", "hung"}
  /\ FaultsLeft
  /\ mishaps' = mishaps + 1
  /\ phase' = "hung"
  /\ UNCHANGED <<output, gens, vllm, control, exit, launches, kills, orphans,
                 outages, sigints, history>>

\* The orchestrator dies; a live generate goes on without it.
KillOrchestrator ==
  /\ phase # "off"
  /\ FaultsLeft
  /\ orphans' = orphans + 1
  /\ End("killed")
  /\ UNCHANGED <<output, gens, vllm, launches, kills, outages,
                 sigints, mishaps, history>>

-----------------------------------------------------------------------------

GenerateStep(g) ==
  \/ Send(g)
  \/ \E p \in Prompts, ok \in BOOLEAN : Complete(g, p, ok)
  \/ Close(g)

OrchestratorStep ==
  \/ StartChunk \/ StartupFails \/ RunGenerate \/ WaitReturns \/ CountChunk
  \/ AllChunksDone

Next ==
  \/ \E g \in Gens :
       GenerateStep(g) \/ Overflow(g) \/ Interrupt(g) \/ KillGenerate(g)
  \/ OrchestratorStep
  \/ Launch \/ NoSpace \/ VllmDies \/ SshDrops \/ Hang \/ KillOrchestrator

Spec == Init /\ [][Next]_vars

\* A live generate goes on: a request ends at its --request-timeout.  A live
\* orchestrator goes on, unless it hangs: its calls return, and the wait for
\* the server has a deadline.
FairSpec ==
  Spec /\ WF_vars(OrchestratorStep) /\ \A g \in Gens : WF_vars(GenerateStep(g))

-----------------------------------------------------------------------------
(* Properties.                                                             *)

Process ==
  [alive : BOOLEAN, born : BOOLEAN, todo : SUBSET Prompts,
   flight : SUBSET Prompts, buffer : Seq(Row), cut : BOOLEAN,
   completed : 0..(FlushEvery - 1), stop : BOOLEAN]

TypeOK ==
  /\ answers \in [Prompts -> Nat] /\ errors \in [Prompts -> Nat]
  /\ garbled \in Nat
  /\ tail \in {Clean, Mixed} \cup Gens
  /\ bare \in SUBSET Row /\ torn \in {Clean} \cup Gens /\ broken \in BOOLEAN
  /\ gens \in [Gens -> Process]
  /\ vllm \in BOOLEAN
  /\ phase \in {"off", "between", "startup", "wait", "count", "hung"}
  /\ chunk \in 0..NChunks /\ before \in Nat /\ started \in BOOLEAN
  /\ fails \in 0..1
  /\ exit \in {"none", "no_space", "bail_out", "complete", "killed"}
  /\ launches \in 0..MaxLaunches /\ kills \in 0..MaxFaults
  /\ orphans \in 0..MaxFaults /\ outages \in 0..MaxFaults
  /\ sigints \in 0..MaxFaults /\ mishaps \in 0..MaxFaults
  /\ base \in Nat /\ blind \in Nat /\ coldFails \in BOOLEAN /\ overlapped \in BOOLEAN

\* As long as no two generate processes ever ran side by side, a prompt has
\* at most one readable line, however often generate was killed in the
\* middle of a line, at its newline or after it, and started again
\* (--skip-completed).
AtMostOneLine == ~overlapped => \A p \in Prompts : Readable(p) <= 1

\* As long as no two ran side by side, a line is lost only to a kill, and to
\* each kill one: every other generate leaves the file at the end of a line,
\* and what a killed one left spoils the one line it runs into (run's buffer
\* and its flushes).
TornLinesAreKills == ~overlapped => garbled <= kills

\* A run that reports COMPLETE added half a chunk of lines, be they answers or
\* errors, in at least every second chunk, but for the chunks whose lines
\* count_lines failed to count beforehand, whatever else was lost, killed or
\* left behind: two failed chunks in a row would have ended it (main).
CompleteMeansProgress ==
  exit = "complete" =>
    Lines - base >= ((NChunks \div 2) - blind) * (ChunkSize \div 2)

\* A first run that reports COMPLETE, in which every server came up and no
\* generate was killed or abandoned, has a line for each prompt it was to
\* cover, although the servers may have died under it (run_chunk, run).
CompleteCoversPrompts ==
  /\ exit = "complete" /\ launches = 1
  /\ ~coldFails /\ kills = 0 /\ orphans = 0
  => \A p \in Prompts : p <= TotalPerNode => answers[p] + errors[p] = 1

\* Every orchestrator ends or is stuck in a call that never returns: no loss
\* of a server, a generate or a connection keeps its loop over chunks going
\* (main, wait_for_vllm's deadline).
OrchestratorEnds == (phase # "off") ~> (phase \in {"off", "hung"})

\* After SIGINT generate launches no request (generate.py:204, "SIGINT
\* received -- finishing in-flight requests, no new launches").
NoLaunchAfterSigint ==
  [][\A g \in Gens : gens[g].stop => gens'[g].flight \subseteq gens[g].flight]_vars
=============================================================================
