-------------------------------- MODULE Wlan --------------------------------
(***************************************************************************)
(* The wireless network of the Controller: the script wlan-gspi, the       *)
(* commands it starts, and the scripts that udhcpc, zcip and wpa_cli call  *)
(* (udhcpc_action, zcip_action, wpa_action).                               *)
(*                                                                         *)
(* A stop runs in the foreground of the suspend script; a start runs in    *)
(* the background, as ifup does after boot, and begets a udhcpc.  Each is  *)
(* a sequence of commands that interleaves with everything else.           *)
(***************************************************************************)
EXTENDS Integers

CONSTANTS
    MaxStarts   \* starts of wlan, each with its udhcpc, that exist at a time

ASSUME MaxStartsOK == MaxStarts \in Nat \ {0}

Starts == 1..MaxStarts
NoStart == 0   \* no pid file, no pid

VARIABLES
    drv,       \* gspi8xxx is loaded, and eth0 exists
    up,        \* eth0 is up
    addr,      \* the address of eth0: none, lease, zeroconf
    wpa,       \* wpa_supplicant and wpa_cli run
    ifstate,   \* eth0 is in /var/run/ifstate
    pidfile,   \* /var/run/udhcpc.eth0.pid
    start,     \* each start's next command: none, insmod, wpa, ifup, wait, write, done
    dhcp,      \* each start's udhcpc: none, exec, piped, deconfig, select, bound
    failed,    \* the udhcpcs that went to the background without a lease
    term,      \* the udhcpcs that have a SIGTERM to handle
    zcip,      \* none, run, hook (waits for zcip_action config), ready
    hook,      \* zcip_action's next command: none, config, deconfig
    kick,      \* the pid wpa_action has read
    stop,      \* the stop's next command: idle, kill, term, wait, down, rm, rmmod
    waitfor,   \* the PID of the stop's loop
    late,      \* zcip_action outlives its zcip (history)
    busy       \* what was under way when the last stop began, or a start any stop met (history)

ifVars == <<drv, up, addr>>
procVars == <<start, dhcp, failed, term, pidfile, ifstate>>
zcipVars == <<zcip, hook, late>>
stopVars == <<stop, waitfor, busy>>
wlanVars == <<ifVars, procVars, zcipVars, stopVars, wpa, kick>>

\* The end of rcS: wlan start has returned, ifup -a runs in the background.
WlanInit ==
    /\ drv = TRUE /\ up = TRUE /\ addr = "none" /\ wpa = TRUE
    /\ ifstate = FALSE /\ pidfile = NoStart
    /\ start = [i \in Starts |-> IF i = 1 THEN "ifup" ELSE "none"]
    /\ dhcp = [i \in Starts |-> "none"]
    /\ failed = {} /\ term = {}
    /\ zcip = "none" /\ hook = "none" /\ late = FALSE
    /\ kick = NoStart
    /\ stop = "idle" /\ waitfor = NoStart /\ busy = {}

\* ifconfig eth0 with an address, which also brings the interface up.
Ifconfig(a) ==
    IF drv THEN addr' = a /\ up' = TRUE /\ UNCHANGED drv ELSE UNCHANGED ifVars

\* killall zcip ends zcip but not the script it waits for.
KillallZcip == zcip' = "none" /\ late' = (hook # "none") /\ UNCHANGED hook

-----------------------------------------------------------------------------

\* A pid is not used again while somebody remembers it.
Free(i) == start[i] \in {"none", "done"} /\ dhcp[i] = "none" /\ kick # i

\* wlan start resume &, which first sleeps for a second.
Spawn(i) ==
    /\ Free(i) /\ \A j \in 1..(i - 1) : ~Free(j)
    /\ start' = [start EXCEPT ![i] = "insmod"]
    /\ UNCHANGED <<ifVars, dhcp, failed, term, pidfile, ifstate, zcipVars, stopVars, wpa, kick>>

Insmod(i) ==
    /\ start[i] = "insmod"
    /\ start' = [start EXCEPT ![i] = "wpa"]
    /\ drv' = TRUE /\ up' = (drv /\ up) /\ addr' = (IF drv THEN addr ELSE "none")
    /\ UNCHANGED <<dhcp, failed, term, pidfile, ifstate, zcipVars, stopVars, wpa, kick>>

\* wpa_supplicant -B needs its interface, and brings it up; wpa_cli -B.
StartWpa(i) ==
    /\ start[i] = "wpa"
    /\ start' = [start EXCEPT ![i] = "ifup"]
    /\ wpa' = (wpa \/ drv) /\ up' = drv
    /\ UNCHANGED <<drv, addr, dhcp, failed, term, pidfile, ifstate, zcipVars, stopVars, kick>>

\* ifup -a: eth0 must exist and not be configured already, according to ifstate.
Ifup(i) ==
    /\ start[i] = "ifup"
    /\ IF ifstate \/ ~drv
       THEN start' = [start EXCEPT ![i] = "done"] /\ UNCHANGED <<dhcp, up>>
       ELSE /\ start' = [start EXCEPT ![i] = "wait"]
            /\ dhcp' = [dhcp EXCEPT ![i] = "exec"]
            /\ up' = TRUE
    /\ failed' = failed \ {i}
    /\ UNCHANGED <<drv, addr, term, pidfile, ifstate, zcipVars, stopVars, wpa, kick>>

\* udhcpc -b goes to the background with a lease or without, or has exited with 0.  It keeps
\* its name i, although the one in the background is a fork with a pid of its own.
UdhcpcReturns(i) ==
    /\ start[i] = "wait"
    /\ dhcp[i] \in {"bound", "none"} \/ i \in failed
    /\ start' = [start EXCEPT ![i] = "write"]
    /\ UNCHANGED <<ifVars, dhcp, failed, term, pidfile, ifstate, zcipVars, stopVars, wpa, kick>>

IfupWrites(i) ==
    /\ start[i] = "write"
    /\ start' = [start EXCEPT ![i] = "done"]
    /\ ifstate' = TRUE
    /\ UNCHANGED <<ifVars, dhcp, failed, term, pidfile, zcipVars, stopVars, wpa, kick>>

StartStep(i) == Insmod(i) \/ StartWpa(i) \/ Ifup(i) \/ UdhcpcReturns(i) \/ IfupWrites(i)

-----------------------------------------------------------------------------

SignalPipe(i) ==
    /\ dhcp[i] = "exec"
    /\ dhcp' = [dhcp EXCEPT ![i] = "piped"]
    /\ UNCHANGED <<ifVars, start, failed, term, pidfile, ifstate, zcipVars, stopVars, wpa, kick>>

\* Faulty variant: the pid file first.
WritePidFirst(i) ==
    /\ dhcp[i] = "exec" /\ pidfile # i
    /\ pidfile' = i
    /\ UNCHANGED <<ifVars, start, dhcp, failed, term, ifstate, zcipVars, stopVars, wpa, kick>>

\* The pid file is written once signals are handled.
WritePid(i) ==
    /\ dhcp[i] = "piped"
    /\ dhcp' = [dhcp EXCEPT ![i] = "deconfig"]
    /\ pidfile' = i
    /\ UNCHANGED <<ifVars, start, failed, term, ifstate, zcipVars, stopVars, wpa, kick>>

\* udhcpc_action deconfig, when udhcpc begins and when it loses its lease.
Deconfig(i) ==
    /\ dhcp[i] \in {"deconfig", "bound"} /\ i \notin term
    /\ dhcp' = [dhcp EXCEPT ![i] = "select"]
    /\ Ifconfig("none") /\ KillallZcip
    /\ UNCHANGED <<start, failed, term, pidfile, ifstate, stopVars, wpa, kick>>

\* udhcpc_action leasefail: zcip is started anew.
LeaseFail(i) ==
    /\ dhcp[i] = "select" /\ i \notin term
    /\ failed' = failed \cup {i}
    /\ zcip' = "run" /\ late' = (hook # "none") /\ UNCHANGED hook
    /\ UNCHANGED <<ifVars, start, dhcp, term, pidfile, ifstate, stopVars, wpa, kick>>

\* Faulty variant: zcip goes on.
BoundZcipRuns(i) ==
    /\ dhcp[i] \in {"select", "bound"} /\ i \notin term /\ wpa /\ up
    /\ dhcp' = [dhcp EXCEPT ![i] = "bound"]
    /\ Ifconfig("lease")
    /\ UNCHANGED <<start, failed, term, pidfile, ifstate, zcipVars, stopVars, wpa, kick>>

\* udhcpc_action bound and renew.
Bound(i) ==
    /\ dhcp[i] \in {"select", "bound"} /\ i \notin term /\ wpa /\ up
    /\ dhcp' = [dhcp EXCEPT ![i] = "bound"]
    /\ Ifconfig("lease") /\ KillallZcip
    /\ UNCHANGED <<start, failed, term, pidfile, ifstate, stopVars, wpa, kick>>

\* SIGTERM: udhcpc -R releases a lease, removes its pid file and exits.
HandleTerm(i) ==
    /\ i \in term /\ dhcp[i] \in {"deconfig", "select", "bound"}
    /\ dhcp' = [dhcp EXCEPT ![i] = "none"]
    /\ term' = term \ {i} /\ pidfile' = NoStart
    /\ IF dhcp[i] = "select" THEN UNCHANGED <<ifVars, zcipVars>>
       ELSE Ifconfig("none") /\ KillallZcip
    /\ UNCHANGED <<start, failed, ifstate, stopVars, wpa, kick>>

UdhcpcStep(i) ==
    \/ SignalPipe(i) \/ WritePid(i) \/ Deconfig(i) \/ LeaseFail(i) \/ Bound(i) \/ HandleTerm(i)

-----------------------------------------------------------------------------

\* zcip has found an address.
ZcipClaims ==
    /\ zcip = "run" /\ hook = "none" /\ wpa /\ up
    /\ zcip' = "hook" /\ hook' = "config"
    /\ UNCHANGED <<ifVars, procVars, late, stopVars, wpa, kick>>

\* The link is down: zcip takes its address back and exits.
ZcipLinkDown ==
    /\ zcip \in {"run", "ready"} /\ hook = "none" /\ ~up
    /\ zcip' = "none" /\ hook' = (IF zcip = "ready" THEN "deconfig" ELSE "none")
    /\ UNCHANGED <<ifVars, procVars, late, stopVars, wpa, kick>>

\* zcip_action config and deconfig.
ZcipAction ==
    /\ hook # "none"
    /\ Ifconfig(IF hook = "config" THEN "zeroconf" ELSE "none")
    /\ hook' = "none" /\ zcip' = (IF zcip = "hook" THEN "ready" ELSE zcip)
    /\ UNCHANGED <<procVars, late, stopVars, wpa, kick>>

\* wpa_action CONNECTED: kill -usr1 `cat pidfile`, in two steps.
KickCat ==
    /\ wpa /\ kick = NoStart /\ pidfile # NoStart
    /\ kick' = pidfile
    /\ UNCHANGED <<ifVars, procVars, zcipVars, stopVars, wpa>>

KickKill ==
    /\ kick # NoStart
    /\ kick' = NoStart
    /\ dhcp' = IF dhcp[kick] = "exec" THEN [dhcp EXCEPT ![kick] = "killed"] ELSE dhcp
    /\ UNCHANGED <<ifVars, start, failed, term, pidfile, ifstate, zcipVars, stopVars, wpa>>

ScriptStep == ZcipClaims \/ ZcipLinkDown \/ ZcipAction \/ KickCat \/ KickKill

-----------------------------------------------------------------------------

\* wlan stop: killall wpa_cli, killall wpa_supplicant.
StopKill ==
    /\ stop = "kill"
    /\ stop' = "term" /\ wpa' = FALSE
    /\ busy' = (busy \cap {"start"})
                 \cup (IF \E i \in Starts : start[i] \notin {"none", "done"} THEN {"start"} ELSE {})
                 \cup (IF zcip # "none" \/ hook # "none" THEN {"zcip"} ELSE {})
    /\ UNCHANGED <<ifVars, procVars, zcipVars, waitfor, kick>>

\* Faulty variant: only kicked, as wpa_action does.
StopTermKicks ==
    /\ stop = "term"
    /\ waitfor' = pidfile
    /\ stop' = IF pidfile = NoStart THEN "down" ELSE "wait"
    /\ UNCHANGED <<ifVars, procVars, zcipVars, busy, wpa, kick>>

\* PID=`cat pidfile`; kill -TERM $PID
StopTerm ==
    /\ stop = "term"
    /\ waitfor' = pidfile
    /\ IF pidfile = NoStart THEN stop' = "down" /\ UNCHANGED term
       ELSE stop' = "wait" /\ term' = term \cup {pidfile}
    /\ UNCHANGED <<ifVars, start, dhcp, failed, pidfile, ifstate, zcipVars, busy, wpa, kick>>

\* Faulty variant: one look, no loop.
StopWaitOnce ==
    /\ stop = "wait"
    /\ stop' = "down" /\ waitfor' = NoStart
    /\ UNCHANGED <<ifVars, procVars, zcipVars, busy, wpa, kick>>

\* while kill -0 $PID
StopWait ==
    /\ stop = "wait" /\ dhcp[waitfor] = "none"
    /\ stop' = "down" /\ waitfor' = NoStart
    /\ UNCHANGED <<ifVars, procVars, zcipVars, busy, wpa, kick>>

\* ifconfig eth0 down
StopDown ==
    /\ stop = "down"
    /\ stop' = "rm" /\ up' = FALSE
    /\ UNCHANGED <<drv, addr, procVars, zcipVars, waitfor, busy, wpa, kick>>

\* Faulty variant: ifstate is kept.
StopRmNothing ==
    /\ stop = "rm"
    /\ stop' = "rmmod"
    /\ UNCHANGED <<ifVars, procVars, zcipVars, waitfor, busy, wpa, kick>>

\* rm -rf /var/run/ifstate
StopRm ==
    /\ stop = "rm"
    /\ stop' = "rmmod" /\ ifstate' = FALSE
    /\ UNCHANGED <<ifVars, start, dhcp, failed, term, pidfile, zcipVars, waitfor, busy, wpa, kick>>

\* rmmod fails while the interface is up.
StopRmmod ==
    /\ stop = "rmmod"
    /\ stop' = "idle"
    /\ drv' = up /\ addr' = (IF up THEN addr ELSE "none")
    /\ UNCHANGED <<up, procVars, zcipVars, waitfor, busy, wpa, kick>>

StopStep ==
    StopKill \/ StopTerm \/ StopWait \/ StopDown \/ StopRm \/ StopRmmod

-----------------------------------------------------------------------------

WlanTypeOK ==
    /\ drv \in BOOLEAN /\ up \in BOOLEAN /\ addr \in {"none", "lease", "zeroconf"}
    /\ wpa \in BOOLEAN /\ ifstate \in BOOLEAN /\ pidfile \in Starts \cup {NoStart}
    /\ start \in [Starts -> {"none", "insmod", "wpa", "ifup", "wait", "write", "done"}]
    /\ dhcp \in [Starts -> {"none", "exec", "piped", "deconfig", "select", "bound", "killed"}]
    /\ failed \subseteq Starts /\ term \subseteq Starts
    /\ zcip \in {"none", "run", "hook", "ready"} /\ hook \in {"none", "config", "deconfig"}
    /\ kick \in Starts \cup {NoStart} /\ late \in BOOLEAN
    /\ stop \in {"idle", "kill", "term", "wait", "down", "rm", "rmmod"}
    /\ waitfor \in Starts \cup {NoStart} /\ busy \subseteq {"start", "zcip"}
    /\ up => drv

(***************************************************************************)
(* The kick of wpa_action never kills a udhcpc: one that cannot handle     *)
(* signals yet has not written its pid file.                               *)
(***************************************************************************)
KickNeverKills == \A i \in Starts : dhcp[i] # "killed"

(***************************************************************************)
(* An interface with a lease has the lease's address, and not one of zcip, *)
(* unless a zcip_action that outlived its zcip came late or an earlier     *)
(* stop met a start.                                                       *)
(***************************************************************************)
LeaseStays ==
    (drv /\ \E i \in Starts : dhcp[i] = "bound") => (addr = "lease" \/ late \/ "start" \in busy)
=============================================================================
