------------------------ MODULE MCExecutionKernel ------------------------
(* Three tasks: t1 and t2 use different workers on the same target, t3 the *)
(* worker of t2 on a target of its own, so t1 and t3 may run together.     *)
EXTENDS ExecutionKernelProperties

CONSTANTS t1, t2, t3, worker1, worker2, target1, target2

MCTasks == {t1, t2, t3}
MCResources == {worker1, worker2, target1, target2}
NeedsOf(t) ==
    CASE t = t1 -> {worker1, target1}
      [] t = t2 -> {worker2, target1}
      [] t = t3 -> {worker2, target2}
MCNeeds == [t \in MCTasks |-> NeedsOf(t)]

==========================================================================
