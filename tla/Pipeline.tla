-------------------------------- MODULE Pipeline --------------------------------
(***************************************************************************)
(* Judging (backend/src/judge/pipeline.cpp, compiler.cpp, runner.cpp): the *)
(* workers of the pool each compile a submission with g++ and run it on    *)
(* its test cases, all in one process.  They share the descriptor table of *)
(* the process, whose numbers the kernel hands out again, lowest first;    *)
(* the pipe ends that any fork() copies into any child, none of them being *)
(* close-on-exec; and the ru_maxrss of the children that were reaped.      *)
(*                                                                         *)
(* Each system call on a descriptor that another thread can interfere with *)
(* is a step.  The three pipe() calls of runBinary are one, and so are the *)
(* closes that follow its fork; one output pipe stands for stdout and      *)
(* stderr, which are opened, inherited, read and closed alike.  Any of the *)
(* calls may fail for want of descriptors, processes, threads or disk,     *)
(* within a bound.  Limits are wall-clock time, so that on a busy machine  *)
(* they may pass whatever the child could do, or has done: at any moment.  *)
(* What a child that nobody watches any more reads and writes is left out. *)
(***************************************************************************)
EXTENDS Naturals, Sequences, FiniteSets

CONSTANTS Workers,  \* the workers of the judge pool
          Fds,      \* the descriptor numbers the process may use
          MaxPipes, \* how many pipes of one worker exist at a time, at most
          Workloads, \* what the workers may have to judge
          Free,     \* a descriptor number that is not in use
          NoChild   \* a worker that has no child process

(* What g++ may do with a submission, and a program on a test case.  A g++ *)
(* or a program that cannot be started errs, or crashes.                   *)
Compilations == {"compiles", "errors", "hangs"}

Programs == {"right", "wrong", "crashes", "loops"}

(* A workload: how many submissions each worker judges, the memory limit   *)
(* of its problem and the number of test cases, what the compiler and the  *)
(* programs do, what they take of memory at most, whether programs fork,   *)
(* and how many of its calls may fail, or time limits pass too early.      *)
Workload(w) == /\ w.rounds \in [Workers -> Nat] /\ w.limit \in [Workers -> Nat]
               /\ w.cases \in Nat \ {0}
               /\ w.compilations \in [Workers -> SUBSET Compilations] /\ w.compiler \in Nat
               /\ w.programs \in [Workers -> SUBSET Programs]
               /\ w.memory \in [Workers -> SUBSET Nat]
               /\ w.forks \in [Workers -> BOOLEAN]
               /\ w.failures \in [Workers -> Nat]

(* A pipe is known by the worker that made it, and its sides. *)
Pipes == Workers \X (1 .. MaxPipes)

End(p, s) == [pipe |-> p, side |-> s]

Ends == [pipe : Pipes, side : {"r", "w"}]

(* A child: what it does, the most memory it comes to, its input and       *)
(* output, and whether it has not ended.                                   *)
Children == [fate : Compilations \union Programs, mem : Nat,
             in : Ends \union {Free}, out : Ends \union {Free}, alive : BOOLEAN]

ASSUME PipelineAssumption == /\ IsFiniteSet(Workers)
                             /\ Fds \subseteq Nat /\ IsFiniteSet(Fds)
                             /\ MaxPipes \in Nat
                             /\ \A w \in Workloads : Workload(w)
                             /\ Free \notin Pipes \union Ends
                             /\ NoChild \notin Children

VARIABLES files,     \* the descriptor table of the process
          content,   \* what is in each pipe
          child,     \* the child process of each worker
          inherited, \* the pipe ends that child holds
          orphan,    \* those of g++'s processes that nobody watches any more
          daemon,    \* those of the processes that its programs left behind
          maxrss,    \* ru_maxrss of the children that were reaped
          pc,        \* where each worker is
          fd,        \* its local descriptor numbers
          reader,    \* its reader thread
          on,        \* the pipe the read() of that thread is blocked on
          sink,      \* what the reader has read
          killed,    \* its timed_out or killed_by_timeout
          case,      \* the index of its test case
          verdict,   \* result.verdict of its submission
          left,      \* the submissions it has still to judge
          work,      \* the workload
          failures,  \* the calls of each that may still fail, or limits be early
          deserved,  \* history: the verdict its submission deserves
          disturbed, \* history: what has happened to it beside that
          leaked,    \* history: the ends that a failed call left open
          aborted    \* whether std::terminate() has ended the process

procs == <<child, inherited, orphan, daemon, maxrss>>
system == <<files, content, procs>>
threads == <<pc, fd, killed>>
readers == <<reader, on, sink>>
results == <<case, verdict, left, deserved>>
world == <<work, failures, leaked, aborted>>
vars == <<system, threads, readers, results, disturbed, world>>

(* What a pipe holds and a reader gets: who wrote it, and what it is. *)
Text(w, t) == [of |-> w, text |-> t]

Nothing == Text(Free, "nothing")

Joined(a, b) == IF a = Nothing THEN b ELSE IF b = Nothing THEN a ELSE Text(Free, "mixed")

Init == /\ work \in Workloads
        /\ failures = work.failures
        /\ leaked = {}
        /\ aborted = FALSE
        /\ files = [n \in Fds |-> Free]
        /\ content = [p \in Pipes |-> Nothing]
        /\ child = [w \in Workers |-> NoChild]
        /\ inherited = [w \in Workers |-> {}]
        /\ orphan = [w \in Workers |-> {}]
        /\ daemon = [w \in Workers |-> {}]
        /\ maxrss = 0
        /\ pc = [w \in Workers |-> IF work.rounds[w] = 0 THEN "done" ELSE "start"]
        /\ fd = [w \in Workers |-> <<>>]
        /\ reader = [w \in Workers |-> "none"]
        /\ on = [w \in Workers |-> Free]
        /\ sink = [w \in Workers |-> Nothing]
        /\ killed = [w \in Workers |-> FALSE]
        /\ case = [w \in Workers |-> 1]
        /\ verdict = [w \in Workers |-> "AC"]
        /\ deserved = [w \in Workers |-> "AC"]
        /\ disturbed = [w \in Workers |-> {}]
        /\ left = [w \in Workers |-> IF work.rounds[w] = 0 THEN 0 ELSE work.rounds[w] - 1]

-------------------------------------------------------------------------------
(* The kernel: descriptor numbers and pipes. *)

InTable == {files[n] : n \in Fds} \ {Free}

(* A blocked read() keeps the read end it was called on. *)
OpenEnds == InTable \union (UNION {inherited[w] \union orphan[w] \union daemon[w] : w \in Workers})
                    \union {End(on[w], "r") : w \in {v \in Workers : on[v] # Free}}

(* The numbers of the pipes w may make: those that no longer exist. *)
UnusedPipes(w) == {i \in 1 .. MaxPipes :
                     \A s \in {"r", "w"} : End(<<w, i>>, s) \notin OpenEnds \union leaked}

Rank(n, S) == 1 + Cardinality({m \in S : m < n})

Nth(i, S) == CHOOSE n \in S : Rank(n, S) = i

FreeNumbers == {n \in Fds : files[n] = Free}

(* The i-th of the ends that the next pipe() calls of w make. *)
NewEnd(w, i) == End(<<w, Nth((i + 1) \div 2, UnusedPipes(w))>>, IF i % 2 = 1 THEN "r" ELSE "w")

(* The table after k pipe() calls, which take the lowest numbers in order; *)
(* their pipes are empty.  There are numbers and pipes for them: Fds and   *)
(* MaxPipes bound what is open at a time.                                  *)
Open(w, k) ==
  /\ 2 * k <= Cardinality(FreeNumbers) /\ k <= Cardinality(UnusedPipes(w))
  /\ files' = [n \in Fds |-> IF n \in FreeNumbers /\ Rank(n, FreeNumbers) <= 2 * k
                             THEN NewEnd(w, Rank(n, FreeNumbers))
                             ELSE files[n]]
  /\ content' = [p \in Pipes |-> IF p[1] = w /\ p[2] \in UnusedPipes(w)
                                 THEN Nothing ELSE content[p]]

(* The numbers that those calls return. *)
Numbers(k) == [i \in 1 .. 2 * k |-> Nth(i, FreeNumbers)]

(* close() of descriptor numbers: on a number that is free it only fails. *)
Close(numbers) == files' = [n \in Fds |-> IF n \in numbers THEN Free ELSE files[n]]

(* History: the workers whose ends w uses, under a number that was its own *)
(* when it learnt it; whose input a child of w holds open; what happened   *)
(* to w itself.                                                            *)
Foreign(w, ends) == {v \in Workers \ {w} : \E e \in ends \ {Free} : e.pipe[1] = v}

Happens(crossed, held, own) ==
  disturbed' = [v \in Workers |-> disturbed[v] \union {d \in {"crossed"} : v \in crossed}
                                              \union {d \in {"held"} : v \in held}
                                              \union own[v]]

NotHere == [v \in Workers |-> {}]

Only(w, what) == [NotHere EXCEPT ![w] = {what}]

Uses(w, numbers) == Happens(Foreign(w, {files[n] : n \in numbers}), {}, NotHere)

(* fork(): the child has the whole table, but for the numbers it closes.   *)
Fork(w, fate, mem, closes, in, out) ==
  /\ child' = [child EXCEPT ![w] = [fate |-> fate, mem |-> mem,
                                    in |-> in, out |-> out, alive |-> TRUE]]
  /\ inherited' = [inherited EXCEPT ![w] = {files[n] : n \in Fds \ closes} \ {Free}]
  /\ Happens(Foreign(w, {in, out}),
             {v \in Workers \ {w} : /\ Len(fd[v]) = 4
                                    /\ files[fd[v][2]] \in inherited'[w]
                                    /\ files[fd[v][2]].pipe[1] = v},
             NotHere)

HasWriter(p) == End(p, "w") \in OpenEnds

-------------------------------------------------------------------------------
(* compileSource(), with the start of runPipeline() *)

(* A call fails, and with it the submission. *)
GiveUp(w, v) == /\ failures[w] > 0
                /\ failures' = [failures EXCEPT ![w] = @ - 1]
                /\ pc' = [pc EXCEPT ![w] = "done"]
                /\ fd' = [fd EXCEPT ![w] = <<>>]
                /\ verdict' = [verdict EXCEPT ![w] = v]
                /\ UNCHANGED <<killed, readers, case, left, deserved, work, aborted>>

(* A std::thread cannot be made: the exception leaves runPipeline(), whose *)
(* caller answers 500.  It closes nothing more and the child goes on, with *)
(* nobody to kill or reap it.                                              *)
Abandon(w, read) == /\ GiveUp(w, "none")
                    /\ leaked' = leaked \union {e \in {files[read]} \ {Free} : e.pipe[1] = w}
                    /\ child' = [child EXCEPT ![w] = NoChild]
                    /\ inherited' = [inherited EXCEPT ![w] = {}]
                    /\ UNCHANGED maxrss

(* The work directory, the source file or the pipe cannot be made. *)
StartFails(w) == /\ pc[w] = "start"
                 /\ \E v \in {"RE", "CE"} : GiveUp(w, v)
                 /\ Happens({}, {}, Only(w, "failed"))
                 /\ UNCHANGED <<system, leaked>>

(* pipe(stderr_pipe): fd[w] is <<read end, write end>> from here on. *)
OpenErr(w) == /\ pc[w] = "start"
              /\ pc' = [pc EXCEPT ![w] = "spawn"]
              /\ fd' = [fd EXCEPT ![w] = Numbers(1)]
              /\ Open(w, 1)
              /\ UNCHANGED <<procs, killed, readers, results, disturbed, world>>

(* fork() fails, and both ends are closed. *)
CompilerForkFails(w) == /\ pc[w] = "spawn"
                        /\ GiveUp(w, "CE")
                        /\ LET ends == {files[fd[w][i]] : i \in 1 .. 2}
                           IN  Happens(Foreign(w, ends), {}, Only(w, "failed"))
                        /\ Close({fd[w][1], fd[w][2]})
                        /\ UNCHANGED <<content, procs, leaked>>

(* The submission compiles, has errors, or keeps g++ busy past its limit.  *)
SpawnCompiler(w) ==
  /\ pc[w] = "spawn"
  /\ pc' = [pc EXCEPT ![w] = "unshare"]
  /\ \E fate \in work.compilations[w] :
       /\ Fork(w, fate, work.compiler, {fd[w][1]}, Free, files[fd[w][2]])
       /\ deserved' = [deserved EXCEPT ![w] = IF fate = "compiles" THEN "AC" ELSE "CE"]
  /\ UNCHANGED <<files, content, orphan, daemon, maxrss, fd, killed, readers,
                 case, verdict, left, world>>

(* The parent closes its write end and starts the reader thread. *)
CloseErrWrite(w) ==
  /\ pc[w] = "unshare"
  /\ pc' = [pc EXCEPT ![w] = "compiling"]
  /\ Close({fd[w][2]})
  /\ Uses(w, {fd[w][2]})
  /\ reader' = [reader EXCEPT ![w] = "read"]
  /\ UNCHANGED <<content, procs, fd, killed, on, sink, results, world>>

CompilerReaderFails(w) ==
  /\ pc[w] = "unshare"
  /\ Abandon(w, fd[w][1])
  /\ Close({fd[w][2]})
  /\ Happens(Foreign(w, {files[fd[w][2]]}), {}, Only(w, "failed"))
  /\ orphan' = [orphan EXCEPT ![w] = @ \union inherited[w]]
  /\ UNCHANGED <<content, daemon>>

(* reader.join() *)
JoinCompiler(w) ==
  /\ pc[w] = "joinCompiler"
  /\ reader[w] = "end"
  /\ pc' = [pc EXCEPT ![w] = "closeAgain"]
  /\ reader' = [reader EXCEPT ![w] = "none"]
  /\ sink' = [sink EXCEPT ![w] = Nothing]
  /\ UNCHANGED <<system, fd, killed, on, results, disturbed, world>>

(* close(stderr_pipe[0]), which the reader thread has closed before: by    *)
(* now the number may belong to another thread.  Then the result: anything *)
(* but an exit status of 0 is a CE.                                        *)
CloseErrAgain(w) ==
  /\ pc[w] = "closeAgain"
  /\ Close({fd[w][1]})
  /\ Uses(w, {fd[w][1]})
  /\ fd' = [fd EXCEPT ![w] = <<>>]
  /\ killed' = [killed EXCEPT ![w] = FALSE]
  /\ child' = [child EXCEPT ![w] = NoChild]
  /\ IF ~killed[w] /\ child[w].fate = "compiles"
     THEN /\ pc' = [pc EXCEPT ![w] = "open"]
          /\ UNCHANGED verdict
     ELSE /\ pc' = [pc EXCEPT ![w] = "done"]
          /\ verdict' = [verdict EXCEPT ![w] = "CE"]
  /\ UNCHANGED <<content, inherited, orphan, daemon, maxrss, readers, case, left, deserved, world>>

-------------------------------------------------------------------------------
(* The reader threads: the lambda of compileSource() and drainPipe(). *)

(* The number it reads: stderr of g++, or the output of the program. *)
Drained(w) == IF Len(fd[w]) = 2 THEN fd[w][1] ELSE fd[w][3]

(* read() looks its number up in the table; it fails on one that is not    *)
(* open for reading.                                                       *)
Read(w) ==
  /\ reader[w] = "read"
  /\ LET file == files[Drained(w)]
         readable == file # Free /\ file.side = "r"
     IN  \/ /\ readable
            /\ reader' = [reader EXCEPT ![w] = "blocked"]
            /\ on' = [on EXCEPT ![w] = file.pipe]
            /\ Uses(w, {Drained(w)})
         \/ /\ ~readable
            /\ reader' = [reader EXCEPT ![w] = "stop"]
            /\ UNCHANGED <<on, disturbed>>
  /\ UNCHANGED <<system, threads, sink, results, world>>

(* It returns what is in the pipe, and the thread reads again ... *)
ReadSome(w) ==
  /\ reader[w] = "blocked"
  /\ content[on[w]] # Nothing
  /\ sink' = [sink EXCEPT ![w] = Joined(@, content[on[w]])]
  /\ content' = [content EXCEPT ![on[w]] = Nothing]
  /\ reader' = [reader EXCEPT ![w] = "read"]
  /\ on' = [on EXCEPT ![w] = Free]
  /\ UNCHANGED <<files, procs, threads, results, disturbed, world>>

(* ... or end of file, when no process has the write end open any more.    *)
ReadEof(w) ==
  /\ reader[w] = "blocked"
  /\ content[on[w]] = Nothing
  /\ ~HasWriter(on[w])
  /\ reader' = [reader EXCEPT ![w] = "stop"]
  /\ on' = [on EXCEPT ![w] = Free]
  /\ UNCHANGED <<system, threads, sink, results, disturbed, world>>

(* The thread of compileSource() closes the descriptor before it ends, the *)
(* one of runBinary() leaves that to its parent.                           *)
ReaderEnds(w) ==
  /\ reader[w] = "stop"
  /\ reader' = [reader EXCEPT ![w] = "end"]
  /\ IF Len(fd[w]) = 2
     THEN Close({fd[w][1]}) /\ Uses(w, {fd[w][1]})
     ELSE UNCHANGED <<files, disturbed>>
  /\ UNCHANGED <<content, procs, threads, on, sink, results, world>>

-------------------------------------------------------------------------------
(* runBinary() *)

(* The three pipes; fd[w] is <<stdin read, stdin write, output read,       *)
(* output write>> from here on.                                            *)
OpenPipes(w) == /\ pc[w] = "open"
                /\ pc' = [pc EXCEPT ![w] = "fork"]
                /\ fd' = [fd EXCEPT ![w] = Numbers(2)]
                /\ Open(w, 2)
                /\ UNCHANGED <<procs, killed, readers, results, disturbed, world>>

(* A pipe() fails (or the binary is not executable), and the ends of those *)
(* before it stay open, none, one or two.                                  *)
PipesFail(w) == /\ pc[w] = "open"
                /\ GiveUp(w, "RE")
                /\ Happens({}, {}, Only(w, "failed"))
                /\ UNCHANGED procs
                /\ \E k \in 0 .. 2 :
                     /\ Open(w, k)
                     /\ leaked' = leaked \union {NewEnd(w, i) : i \in 1 .. 2 * k}

Mutant_ForkFailsLeavesOpen(w) == /\ pc[w] = "fork"
                                 /\ GiveUp(w, "RE")
                                 /\ Happens({}, {}, Only(w, "failed"))
                                 /\ UNCHANGED <<system, leaked>>

(* fork() fails, and all ends are closed. *)
ForkFails(w) == /\ pc[w] = "fork"
                /\ GiveUp(w, "RE")
                /\ LET ends == {files[fd[w][i]] : i \in 1 .. 4}
                   IN  Happens(Foreign(w, ends), {}, Only(w, "failed"))
                /\ Close({fd[w][i] : i \in 1 .. 4})
                /\ UNCHANGED <<content, procs, leaked>>

(* The order of runBinary(): time, memory, exit status, output. *)
Deserves(w, fate, mem) == CASE fate = "loops" -> "TLE"
                            [] fate # "loops" /\ mem > work.limit[w] -> "MLE"
                            [] fate = "crashes" /\ ~(mem > work.limit[w]) -> "RE"
                            [] fate = "wrong" /\ ~(mem > work.limit[w]) -> "WA"
                            [] fate = "right" /\ ~(mem > work.limit[w]) -> "AC"

(* fork(): the program on this test case is right, wrong, crashes or does  *)
(* not end.                                                                *)
SpawnProgram(w) ==
  /\ pc[w] = "fork"
  /\ pc' = [pc EXCEPT ![w] = "ends"]
  /\ \E fate \in work.programs[w], mem \in work.memory[w] :
       /\ Fork(w, fate, mem, {fd[w][2], fd[w][3]}, files[fd[w][1]], files[fd[w][4]])
       /\ deserved' = [deserved EXCEPT ![w] = IF @ = "AC" THEN Deserves(w, fate, mem) ELSE @]
  /\ UNCHANGED <<files, content, orphan, daemon, maxrss, fd, killed, readers,
                 case, verdict, left, world>>

CloseChildEnds(w) ==
  /\ pc[w] = "ends"
  /\ pc' = [pc EXCEPT ![w] = "feed"]
  /\ Close({fd[w][1], fd[w][4]})
  /\ Uses(w, {fd[w][1], fd[w][4]})
  /\ UNCHANGED <<content, procs, fd, killed, readers, results, world>>

(* writeAll() to the child's stdin, whose failure is ignored, and close(). *)
WriteInput(w) ==
  /\ LET file == files[fd[w][2]]
     IN  content' = IF file # Free /\ file.side = "w"
                    THEN [content EXCEPT ![file.pipe] = Joined(@, Text(w, "input"))]
                    ELSE content
  /\ Close({fd[w][2]})

(* Then the reader threads start. *)
Feed(w) ==
  /\ pc[w] = "feed"
  /\ pc' = [pc EXCEPT ![w] = "running"]
  /\ WriteInput(w)
  /\ Uses(w, {fd[w][2]})
  /\ reader' = [reader EXCEPT ![w] = "read"]
  /\ UNCHANGED <<procs, fd, killed, on, sink, results, world>>

(* The first thread cannot be made: the program runs without its limits. *)
ReaderFails(w) ==
  /\ pc[w] = "feed"
  /\ Abandon(w, fd[w][3])
  /\ WriteInput(w)
  /\ Happens(Foreign(w, {files[fd[w][2]]}), {}, Only(w, "failed"))
  /\ daemon' = [daemon EXCEPT ![w] = @ \union inherited[w]]
  /\ UNCHANGED orphan

(* The second cannot: the destructor of the first, which is joinable, ends *)
(* the whole process.                                                      *)
SecondReaderFails(w) ==
  /\ pc[w] = "feed"
  /\ failures[w] > 0
  /\ aborted' = TRUE
  /\ UNCHANGED <<system, threads, readers, results, disturbed, work, failures, leaked>>

JoinReader(w) ==
  /\ pc[w] = "joinReader"
  /\ reader[w] = "end"
  /\ pc' = [pc EXCEPT ![w] = "judge"]
  /\ reader' = [reader EXCEPT ![w] = "none"]
  /\ UNCHANGED <<system, fd, killed, on, sink, results, disturbed, world>>

OverLimit(w) == maxrss > work.limit[w]

(* Only an exit status of 0 comes to the output. *)
StatusVerdict(w) == CASE child[w].fate \in {"crashes", "loops"} -> "RE"
                       [] OTHER -> IF sink[w] = Text(w, "right") THEN "AC" ELSE "WA"

Mutant_MemoryFirst(w) == CASE OverLimit(w)               -> "MLE"
                           [] ~OverLimit(w) /\ killed[w] -> "TLE"
                           [] OTHER                      -> StatusVerdict(w)

(* The status of the run: a timeout comes before the memory, the memory    *)
(* before the exit status: RE for a program that crashed or met RLIMIT_CPU.*)
CaseVerdict(w) == CASE killed[w]                  -> "TLE"
                    [] ~killed[w] /\ OverLimit(w) -> "MLE"
                    [] OTHER                      -> StatusVerdict(w)

Aggregated(overall, next) == IF overall = "AC" THEN next ELSE overall

Mutant_OneCaseTooMany(w) ==
  /\ pc[w] = "judge"
  /\ Close({fd[w][3]})
  /\ Uses(w, {fd[w][3]})
  /\ fd' = [fd EXCEPT ![w] = <<>>]
  /\ sink' = [sink EXCEPT ![w] = Nothing]
  /\ killed' = [killed EXCEPT ![w] = FALSE]
  /\ child' = [child EXCEPT ![w] = NoChild]
  /\ verdict' = [verdict EXCEPT ![w] = Aggregated(@, CaseVerdict(w))]
  /\ IF verdict'[w] = "AC" /\ case[w] <= work.cases
     THEN /\ case' = [case EXCEPT ![w] = @ + 1]
          /\ pc' = [pc EXCEPT ![w] = "open"]
     ELSE /\ pc' = [pc EXCEPT ![w] = "done"]
          /\ UNCHANGED case
  /\ UNCHANGED <<content, inherited, orphan, daemon, maxrss, reader, on, left, deserved, world>>

(* The end of runBinary(), and of the loop body of runPipeline(): the      *)
(* first case that is not AC is the last.  runPipeline() then removes the  *)
(* work directory, which is the submission's own.                          *)
Judge(w) ==
  /\ pc[w] = "judge"
  /\ Close({fd[w][3]})
  /\ Uses(w, {fd[w][3]})
  /\ fd' = [fd EXCEPT ![w] = <<>>]
  /\ sink' = [sink EXCEPT ![w] = Nothing]
  /\ killed' = [killed EXCEPT ![w] = FALSE]
  /\ child' = [child EXCEPT ![w] = NoChild]
  /\ verdict' = [verdict EXCEPT ![w] = Aggregated(@, CaseVerdict(w))]
  /\ IF verdict'[w] = "AC" /\ case[w] < work.cases
     THEN /\ case' = [case EXCEPT ![w] = @ + 1]
          /\ pc' = [pc EXCEPT ![w] = "open"]
     ELSE /\ pc' = [pc EXCEPT ![w] = "done"]
          /\ UNCHANGED case
  /\ UNCHANGED <<content, inherited, orphan, daemon, maxrss, reader, on, left, deserved, world>>

-------------------------------------------------------------------------------
(* The children, and the polling loops that reap them. *)

Alive(w) == child[w] # NoChild /\ child[w].alive

(* A program that ends reads its input to the end first. *)
CanExit(w) ==
  CASE child[w].fate \in {"hangs", "loops"} -> FALSE
    [] child[w].fate \in {"right", "wrong"} ->
         child[w].in # Free => ~HasWriter(child[w].in.pipe)
    [] OTHER -> TRUE

Input(w) == IF child[w].in = Free THEN Nothing ELSE content[child[w].in.pipe]

Output(w) == CASE child[w].fate = "right" /\ Input(w) = Text(w, "input") -> Text(w, "right")
               [] child[w].fate = "right" /\ Input(w) # Text(w, "input") -> Text(w, "wrong")
               [] child[w].fate = "wrong" -> Text(w, "wrong")
               [] child[w].fate = "errors" -> Text(w, "errors")
               [] OTHER -> Nothing

(* A program that ends, or is killed, may leave a child of its own behind, *)
(* which keeps its ends.  g++ waits for its children.                      *)
Leaves(w) == \/ UNCHANGED daemon
             \/ /\ work.forks[w] /\ child[w].fate \in Programs
                /\ daemon' = [daemon EXCEPT ![w] = @ \union inherited[w]]

Dies(w) == /\ child' = [child EXCEPT ![w].alive = FALSE]
           /\ inherited' = [inherited EXCEPT ![w] = {}]
           /\ Leaves(w)

(* The child reads its input, writes its output and exits. *)
Exit(w) ==
  /\ Alive(w)
  /\ CanExit(w)
  /\ Dies(w)
  /\ content' = IF child[w].out = Free
                THEN content
                ELSE [content EXCEPT ![child[w].out.pipe] = Joined(@, Output(w))]
  /\ UNCHANGED <<files, orphan, maxrss, threads, readers, results, disturbed, world>>

(* RLIMIT_CPU ends a program that computes, in several threads or when its *)
(* worker is late, before the time limit does.                             *)
CpuLimit(w) ==
  /\ Alive(w)
  /\ child[w].fate = "loops"
  /\ Dies(w)
  /\ Happens({}, {}, Only(w, "cpu"))
  /\ UNCHANGED <<files, content, orphan, maxrss, threads, readers, results, world>>

Joining(w) == IF pc[w] = "compiling" THEN "joinCompiler" ELSE "joinReader"

(* What has been reaped counts: g++, a killed program, any problem's.      *)
Larger(a, b) == IF a < b THEN b ELSE a

(* waitpid(WNOHANG) returns the child, and its memory enters ru_maxrss. *)
Reap(w) ==
  /\ pc[w] \in {"compiling", "running"}
  /\ ~child[w].alive
  /\ maxrss' = Larger(maxrss, child[w].mem)
  /\ pc' = [pc EXCEPT ![w] = Joining(w)]
  /\ UNCHANGED <<files, content, child, inherited, orphan, daemon, fd, killed, readers,
                 results, disturbed, world>>

Mutant_NoKill(w) ==
  /\ pc[w] \in {"compiling", "running"}
  /\ child[w].alive /\ ~CanExit(w)
  /\ killed' = [killed EXCEPT ![w] = TRUE]
  /\ pc' = [pc EXCEPT ![w] = Joining(w)]
  /\ UNCHANGED <<system, fd, readers, results, disturbed, world>>

(* The time limit passes: kill(SIGKILL), and waitpid() until it is dead,   *)
(* with the memory it had come to.  It is early for a child that could end *)
(* by itself, or has.  The kill of the g++ driver spares the compiler      *)
(* proper that it runs, and that of a program its children.                *)
Kill(w) ==
  /\ pc[w] \in {"compiling", "running"}
  /\ killed' = [killed EXCEPT ![w] = TRUE]
  /\ Dies(w)
  /\ \E reached \in IF child[w].alive THEN 0 .. child[w].mem ELSE {child[w].mem} :
       maxrss' = Larger(maxrss, reached)
  /\ orphan' = IF pc[w] = "compiling"
               THEN [orphan EXCEPT ![w] = @ \union inherited[w]]
               ELSE orphan
  /\ IF child[w].alive /\ ~CanExit(w)
     THEN UNCHANGED <<disturbed, failures>>
     ELSE /\ failures[w] > 0 /\ failures' = [failures EXCEPT ![w] = @ - 1]
          /\ Happens({}, {}, Only(w, "early"))
  /\ pc' = [pc EXCEPT ![w] = Joining(w)]
  /\ UNCHANGED <<files, content, fd, readers, results, work, leaked, aborted>>

(* g++'s processes end by themselves, sooner or later ... *)
OrphanEnds(w) ==
  /\ orphan[w] # {}
  /\ orphan' = [orphan EXCEPT ![w] = {}]
  /\ UNCHANGED <<files, content, child, inherited, daemon, maxrss, threads, readers, results,
                 disturbed, world>>

(* ... and what a program left behind may, or not. *)
DaemonEnds(w) ==
  /\ daemon[w] # {}
  /\ daemon' = [daemon EXCEPT ![w] = {}]
  /\ UNCHANGED <<files, content, child, inherited, orphan, maxrss, threads, readers, results,
                 disturbed, world>>

(* The worker takes the next submission. *)
NextSubmission(w) ==
  /\ pc[w] = "done"
  /\ left[w] > 0
  /\ left' = [left EXCEPT ![w] = @ - 1]
  /\ pc' = [pc EXCEPT ![w] = "start"]
  /\ case' = [case EXCEPT ![w] = 1]
  /\ verdict' = [verdict EXCEPT ![w] = "AC"]
  /\ deserved' = [deserved EXCEPT ![w] = "AC"]
  /\ disturbed' = [disturbed EXCEPT ![w] = {}]
  /\ UNCHANGED <<system, fd, killed, readers, world>>

-------------------------------------------------------------------------------
WorkerStep(w) == \/ StartFails(w) \/ OpenErr(w)
                 \/ CompilerForkFails(w) \/ SpawnCompiler(w)
                 \/ CloseErrWrite(w) \/ CompilerReaderFails(w)
                 \/ JoinCompiler(w) \/ CloseErrAgain(w)
                 \/ PipesFail(w) \/ OpenPipes(w) \/ ForkFails(w) \/ SpawnProgram(w)
                 \/ CloseChildEnds(w) \/ Feed(w) \/ ReaderFails(w) \/ SecondReaderFails(w)
                 \/ JoinReader(w) \/ Judge(w)
                 \/ Reap(w) \/ Kill(w)
                 \/ NextSubmission(w)

ReaderStep(w) == Read(w) \/ ReadSome(w) \/ ReadEof(w) \/ ReaderEnds(w)

ChildStep(w) == Exit(w) \/ CpuLimit(w) \/ OrphanEnds(w)

(* What goes on by itself, as long as the process is there. *)
Progress == ~aborted /\ \E w \in Workers : WorkerStep(w) \/ ReaderStep(w) \/ ChildStep(w)

Next == Progress \/ (~aborted /\ \E w \in Workers : DaemonEnds(w))

Safety == Init /\ [][Next]_vars

(* The kernel runs some thread or child that can run, and the processes of *)
(* g++ end.  No step can be undone, so that is enough.  Nothing makes what *)
(* a program has left behind end.                                          *)
Spec == Safety /\ WF_vars(Progress)

-------------------------------------------------------------------------------
(* What judging must guarantee. *)

(* The verdicts of pipeline.hpp, and none when runPipeline() throws. *)
Verdicts == {"AC", "WA", "TLE", "MLE", "RE", "CE", "none"}

Disturbances == {"crossed", "held", "failed", "early", "cpu"}

Texts == [of : Workers \union {Free},
          text : {"nothing", "mixed", "input", "right", "wrong", "errors"}]

(* The type invariant: no worker judges a test case that the problem does  *)
(* not have (pipeline.cpp).                                                *)
TypeOK ==
  /\ files \in [Fds -> Ends \union {Free}]
  /\ content \in [Pipes -> Texts]
  /\ child \in [Workers -> Children \union {NoChild}]
  /\ inherited \in [Workers -> SUBSET Ends]
  /\ orphan \in [Workers -> SUBSET Ends]
  /\ daemon \in [Workers -> SUBSET Ends]
  /\ maxrss \in Nat
  /\ pc \in [Workers -> {"start", "spawn", "unshare", "compiling", "joinCompiler",
                         "closeAgain", "open", "fork", "ends", "feed", "running",
                         "joinReader", "judge", "done"}]
  /\ fd \in [Workers -> Seq(Fds)]
  /\ reader \in [Workers -> {"none", "read", "blocked", "stop", "end"}]
  /\ on \in [Workers -> Pipes \union {Free}]
  /\ sink \in [Workers -> Texts]
  /\ killed \in [Workers -> BOOLEAN]
  /\ case \in [Workers -> 1 .. work.cases]
  /\ verdict \in [Workers -> Verdicts]
  /\ deserved \in [Workers -> Verdicts]
  /\ left \in [Workers -> Nat] /\ \A w \in Workers : left[w] <= work.rounds[w]
  /\ work \in Workloads
  /\ failures \in [Workers -> Nat] /\ \A w \in Workers : failures[w] <= work.failures[w]
  /\ disturbed \in [Workers -> SUBSET Disturbances]
  /\ leaked \subseteq Ends
  /\ aborted \in BOOLEAN

(* The verdict of a submission is that of its first test case that is not  *)
(* accepted, or CE.  While no worker has closed, read or written one of    *)
(* its descriptors because the number had been its own, it is never AC or  *)
(* WA undeservedly, and another one has its cause: for MLE a child that    *)
(* was reaped and took more than this problem allows, but not when the     *)
(* program was to be called TLE, unless RLIMIT_CPU came first; for TLE a   *)
(* process that held its input open, or a time limit that passed though    *)
(* the program could end; for CE such a limit or a failed call; for RE     *)
(* RLIMIT_CPU or a failed call; for none at all a failed call.             *)
VerdictDeserved ==
  \A w \in Workers :
    pc[w] = "done" =>
      \/ verdict[w] = deserved[w]
      \/ "crossed" \in disturbed[w]
      \/ verdict[w] = "MLE" /\ OverLimit(w) /\ (deserved[w] = "TLE" => "cpu" \in disturbed[w])
      \/ verdict[w] = "TLE" /\ disturbed[w] \intersect {"held", "early"} # {}
      \/ verdict[w] = "CE" /\ disturbed[w] \intersect {"early", "failed"} # {}
      \/ verdict[w] = "RE" /\ disturbed[w] \intersect {"cpu", "failed"} # {}
      \/ verdict[w] = "none" /\ "failed" \in disturbed[w]

(* Whatever descriptors the workers opened, only those that a failed       *)
(* pipe() or thread left behind are open when all of them are between      *)
(* submissions: closing numbers of others, or twice, leaks none.           *)
DescriptorsReturned ==
  (\A w \in Workers : pc[w] \in {"start", "done"}) => InTable \subseteq leaked

(* A read() on a pipe whose write end nobody need close: a failed call has *)
(* left it open, under a number that had been that of w, or a process that *)
(* a program left behind holds it.                                         *)
Stuck(w) == /\ on[w] # Free
            /\ End(on[w], "w") \in leaked \union UNION {daemon[v] : v \in Workers}

(* Every submission gets a verdict, or none: a reader whose pipe other     *)
(* children hold open waits for them, and they are killed in time or end.  *)
(* Only a leaked pipe, a process that outlives the program that forked it  *)
(* or the end of the whole process makes it wait for ever.                 *)
EveryPipelineEnds ==
  <>[](aborted \/ \A w \in Workers : Stuck(w) \/ (pc[w] = "done" /\ left[w] = 0))

===============================================================================
