----------------------------- MODULE MCPipeline -----------------------------
(* Judging with few workers and just enough descriptor numbers and pipes.   *)
EXTENDS Pipeline

CONSTANTS w1, w2

By(first, second) == [w \in Workers |-> IF w = w1 THEN first ELSE second]

(* The problem of w1 allows one unit of memory, that of w2 two. *)
Load(rounds, cases, compilations, programs, memory, compiler, forks, failing) ==
  [rounds |-> rounds, cases |-> cases, limit |-> By(1, 2),
   compilations |-> compilations, compiler |-> compiler,
   programs |-> programs, memory |-> memory, forks |-> forks, failures |-> failing]

Both(x) == By(x, x)

(* One worker: whatever its submissions do, with calls that fail; a g++     *)
(* that takes more memory than the problem allows and programs that fork.   *)
AloneWorkloads ==
  {Load(By(2, 0), 2, Both(Compilations), Both(Programs), Both({0, 2}), 0,
        Both(FALSE), Both(2)),
   Load(By(2, 0), 1, Both({"compiles"}), Both({"right", "loops"}), Both({1}), 2,
        Both(TRUE), Both(1))}

(* Two workers: the g++ of the other one outlives its driver; its program   *)
(* forks and does not end, and takes more memory than w1's problem allows;  *)
(* a call of either fails.                                                  *)
MCWorkloads ==
  AloneWorkloads \union
  {Load(By(1, 1), 1, By({"compiles"}, {"hangs"}), Both({"right"}), Both({0}), 0,
        Both(FALSE), Both(0)),
   Load(By(1, 1), 1, Both({"compiles"}), By({"right"}, {"loops"}), By({1}, {2}), 0,
        By(FALSE, TRUE), Both(0)),
   Load(By(1, 1), 1, Both({"compiles"}), Both({"right"}), Both({0}), 0,
        Both(FALSE), By(0, 1))}

(* One worker, two submissions of one case. *)
SerialWorkload == {Load(By(2, 0), 1, Both(Compilations), Both(Programs), Both({0, 2}), 0,
                        Both(FALSE), Both(0))}
==============================================================================
