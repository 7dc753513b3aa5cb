---------------------------- MODULE KernelModule ----------------------------
(***************************************************************************)
(* The optional kernel module (src/zoedr_kernel.c): two kprobes that are   *)
(* meant to log whoever signals the daemon and whoever attaches to a       *)
(* process with ptrace.  Nothing is blocked: both handlers return 0.       *)
(*                                                                         *)
(* The handlers take a system call's arguments from regs->di and regs->si. *)
(* Up to Linux 4.16 the probed sys_kill has them there ("direct").  Since  *)
(* 4.17 the module probes __x64_sys_kill, whose only argument is the       *)
(* address of the saved registers ("wrapped"): di holds an address, of     *)
(* which the cast to pid_t keeps the low half, and si is whatever the      *)
(* entry code left in it.                                                  *)
(*                                                                         *)
(* protected_pid is a module parameter.  Every script loads the module     *)
(* without it, and it can be written later by root; the module itself      *)
(* never learns that the daemon was restarted under another id.            *)
(***************************************************************************)
EXTENDS Integers

CONSTANTS DaemonPids,    \* the ids a run of the daemon can get
          Words,         \* what the low half of a register can hold
          KernelTypes    \* the kernels the module is built for

ASSUME KernelAssumption == /\ DaemonPids \subseteq Nat \ {0}
                           /\ DaemonPids \cup {0} \subseteq Words
                           /\ Words \subseteq Int
                           /\ KernelTypes \subseteq {"direct", "wrapped"}

VARIABLES kernel,          \* how a probed function gets its arguments
          module_state,    \* how far zoedr_kernel_init or _exit has come
          hooks,           \* the probes that are armed
          protected_pid,
          daemon_pid,      \* the running daemon, 0 when there is none
          syscall          \* the last system call and what the module made of it

kernelVars == <<kernel, module_state, hooks, protected_pid, daemon_pid, syscall>>

Requests == {"attach", "other"}

NoSyscall == [name |-> "none"]

Kills == [name : {"kill"}, target : Words, printed : SUBSET DaemonPids]

Ptraces == [name : {"ptrace"}, request : Requests, logged : BOOLEAN]

KernelTypeOK ==
    /\ kernel \in KernelTypes
    /\ module_state \in {"absent", "loading", "kill_probed", "live", "leaving"}
    /\ hooks \subseteq {"kill", "ptrace"}
    /\ protected_pid \in DaemonPids \cup {0}
    /\ daemon_pid \in DaemonPids \cup {0}
    /\ syscall \in {NoSyscall} \cup Kills \cup Ptraces

KernelInit ==
    /\ kernel \in KernelTypes
    /\ module_state = "absent"
    /\ hooks = {}
    /\ protected_pid = 0
    /\ daemon_pid = 0
    /\ syscall = NoSyscall
-----------------------------------------------------------------------------
\* insmod without parameters, as install.sh and recover.sh do, or with the
\* id of the daemon that runs now.
Insmod(p) ==
    /\ module_state = "absent"
    /\ module_state' = "loading"
    /\ protected_pid' = p
    /\ UNCHANGED <<kernel, hooks, daemon_pid, syscall>>

\* Root writes the parameter: its permissions are 0644.
WriteParameter(p) ==
    /\ module_state # "absent"
    /\ protected_pid' = p
    /\ UNCHANGED <<kernel, module_state, hooks, daemon_pid, syscall>>

\* The first register_kprobe: a negative result fails the load.
ProbeKill ==
    /\ module_state = "loading"
    /\ \/ hooks' = hooks \cup {"kill"} /\ module_state' = "kill_probed"
       \/ hooks' = hooks /\ module_state' = "absent"
    /\ UNCHANGED <<kernel, protected_pid, daemon_pid, syscall>>

\* MUTANT of ProbePtrace: a failed load leaves the first probe armed.
ProbePtrace_KeepsKill ==
    /\ module_state = "kill_probed"
    /\ \/ hooks' = hooks \cup {"ptrace"} /\ module_state' = "live"
       \/ hooks' = hooks /\ module_state' = "absent"
    /\ UNCHANGED <<kernel, protected_pid, daemon_pid, syscall>>

\* The second: when it fails the first is taken back.
ProbePtrace ==
    /\ module_state = "kill_probed"
    /\ \/ hooks' = hooks \cup {"ptrace"} /\ module_state' = "live"
       \/ hooks' = hooks \ {"kill"} /\ module_state' = "absent"
    /\ UNCHANGED <<kernel, protected_pid, daemon_pid, syscall>>

\* rmmod: zoedr_kernel_exit disarms the probes one after the other.
UnprobeKill ==
    /\ module_state = "live"
    /\ module_state' = "leaving"
    /\ hooks' = hooks \ {"kill"}
    /\ UNCHANGED <<kernel, protected_pid, daemon_pid, syscall>>

UnprobePtrace ==
    /\ module_state = "leaving"
    /\ module_state' = "absent"
    /\ hooks' = hooks \ {"ptrace"}
    /\ UNCHANGED <<kernel, protected_pid, daemon_pid, syscall>>

DaemonStarts ==
    /\ daemon_pid = 0
    /\ daemon_pid' \in DaemonPids
    /\ UNCHANGED <<kernel, module_state, hooks, protected_pid, syscall>>

DaemonEnds ==
    /\ daemon_pid # 0
    /\ daemon_pid' = 0
    /\ UNCHANGED <<kernel, module_state, hooks, protected_pid, syscall>>
-----------------------------------------------------------------------------
\* What the cast of regs->di to pid_t yields in a kill of target.
TargetRead(target) == IF kernel = "direct" THEN {target} ELSE Words

\* MUTANT of PrintedTarget: the test of protected_pid is left out.
PrintedTarget_Unset(word) == IF word = protected_pid THEN {word} ELSE {}

\* handler_pre_kill: the target it prints, if it prints a line.
PrintedTarget(word) ==
    IF protected_pid > 0 /\ word = protected_pid THEN {word} ELSE {}

\* Somebody calls kill.  The target 0 is the caller's own group.
Kill(target) ==
    /\ \E word \in TargetRead(target) :
         syscall' = [name |-> "kill", target |-> target,
                     printed |-> IF "kill" \in hooks THEN PrintedTarget(word)
                                 ELSE {}]
    /\ UNCHANGED <<kernel, module_state, hooks, protected_pid, daemon_pid>>

\* handler_pre_ptrace compares the whole register: the address of the saved
\* registers is never PTRACE_ATTACH or PTRACE_SEIZE.
AttachSeen(request) == kernel = "direct" /\ request = "attach"

Ptrace(request) ==
    /\ syscall' = [name |-> "ptrace", request |-> request,
                   logged |-> "ptrace" \in hooks /\ AttachSeen(request)]
    /\ UNCHANGED <<kernel, module_state, hooks, protected_pid, daemon_pid>>

KernelNext ==
    \/ \E p \in {0, daemon_pid} : Insmod(p) \/ WriteParameter(p)
    \/ ProbeKill \/ ProbePtrace \/ UnprobeKill \/ UnprobePtrace
    \/ DaemonStarts \/ DaemonEnds
    \/ \E target \in Words : Kill(target)
    \/ \E request \in Requests : Ptrace(request)

KernelSpec == KernelInit /\ [][KernelNext]_kernelVars
-----------------------------------------------------------------------------
(***************************************************************************)
(* The kernel never runs a handler of a module that is not there: every    *)
(* way out of zoedr_kernel_init and zoedr_kernel_exit has taken back each  *)
(* probe that was armed.  A loaded module has both.                        *)
(***************************************************************************)
NoProbeWithoutModule ==
    /\ module_state \in {"absent", "loading"} => hooks = {}
    /\ module_state = "live" => hooks = {"kill", "ptrace"}
=============================================================================
