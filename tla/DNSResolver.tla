------------------------------ MODULE DNSResolver ------------------------------
(***************************************************************************)
(* The hostname resolution of ipset_load (ipset_load.c): the main thread   *)
(* reads the lines of a file; for a hostname line dns_request() first      *)
(* drains the replies into the ipset, then pushes a request on the         *)
(* dns_requests stack, spawns a detached worker while the pending count    *)
(* exceeds the worker count (up to dns_threads_max) and signals dns_cond.  *)
(* Workers pop a request, call getaddrinfo() and push every address on     *)
(* the dns_replies stack, re-push the request on a temporary failure       *)
(* (EAI_AGAIN) while it has tries left, and count it finished otherwise.   *)
(* At the end of the file dns_done() loops: drain the replies and, while   *)
(* requests are pending, signal the workers and sleep; then drains once    *)
(* more.                                                                   *)
(*                                                                         *)
(* Each step is one critical section of the code or a step of one thread   *)
(* that touches no shared state in between: pushes and pops under          *)
(* dns_requests_mut / dns_replies_mut, the predicate check and wait or the *)
(* signal under dns_mut.  A worker blocked in pthread_cond_wait is in      *)
(* state "waiting"; a signal moves one such worker back to re-check.       *)
(* The unlocked reads of dns_requests, dns_replies and                     *)
(* dns_requests_pending are taken to see the latest value.                 *)
(***************************************************************************)
EXTENDS IPSet

CONSTANTS
    Hosts,          \* the hostname lines of the file, in order (distinct)
    Answers,        \* Answers[h]: the addresses getaddrinfo returns for h
    MaxThreads,     \* dns_threads_max (5, or --dns-threads)
    Tries,          \* d->tries of a new request (20 in the code)
    CreateMayFail,  \* whether pthread_create may fail
    NoReq           \* a worker holding no request

HostSet == {Hosts[i] : i \in DOMAIN Hosts}
Threads == 1..MaxThreads
Request == [host : HostSet, tries : 0..Tries]

ASSUME /\ Answers \in [HostSet -> SUBSET Addr]
       /\ MaxThreads \in Nat \ {0} /\ Tries \in Nat
       /\ CreateMayFail \in BOOLEAN /\ NoReq \notin Request

VARIABLES
    ips,          \* the ipset being loaded; only the main thread writes it
    line,         \* index of the next hostname line
    mpc,          \* main thread's position
    requests,     \* dns_requests: a stack, head first
    replies,      \* dns_replies: a stack of addresses, head first
    pending,      \* dns_requests_pending
    made,         \* dns_requests_made
    dns_threads,  \* workers created
    wpc,          \* wpc[t]: worker t's position, "none" before creation
    wreq,         \* wreq[t]: the request worker t holds, or NoReq
    wleft,        \* wleft[t]: the addresses of its answer not yet pushed
    attempts,     \* history: getaddrinfo calls per host
    finished,     \* history: hosts whose request dns_request_done freed
    resolved      \* history: hosts getaddrinfo resolved

vars == <<ips, line, mpc, requests, replies, pending, made, dns_threads,
          wpc, wreq, wleft, attempts, finished, resolved>>
worker == <<wpc, wreq, wleft>>

Init ==
    /\ ips = [ipset_create EXCEPT !.optimized = TRUE]
    /\ line = 1
    /\ mpc = "lines"
    /\ requests = <<>>
    /\ replies = <<>>
    /\ pending = 0 /\ made = 0 /\ dns_threads = 0
    /\ wpc = [t \in Threads |-> "none"]
    /\ wreq = [t \in Threads |-> NoReq]
    /\ wleft = [t \in Threads |-> {}]
    /\ attempts = [h \in HostSet |-> 0]
    /\ finished = {} /\ resolved = {}

-----------------------------------------------------------------------------
(* Main thread                                                             *)

\* dns_process_replies(): ipset_add_ip_range(ip, ip) for every reply, from
\* the head of the stack, under dns_replies_mut.
RECURSIVE AddReplies(_, _)
AddReplies(s, r) ==
    IF r = <<>> THEN s ELSE AddReplies(ipset_add_ip_range(s, Head(r), Head(r)), Tail(r))

ProcessReplies ==
    /\ ips' = AddReplies(ips, replies)
    /\ replies' = <<>>

\* The creation outcomes pthread_create may have.
CreateOutcomes == IF CreateMayFail THEN {TRUE, FALSE} ELSE {TRUE}

\* A LINE_HAS_1_HOSTNAME line: dns_request() drains the replies, pushes a
\* request with d->tries = Tries and, in dns_request_add(), counts it and
\* creates a worker when the pending count read under the lock exceeds the
\* workers; a failed pthread_create returns without signalling.
dns_request ==
    /\ mpc = "lines" /\ line <= Len(Hosts)
    /\ ProcessReplies
    /\ requests' = <<[host |-> Hosts[line], tries |-> Tries]>> \o requests
    /\ pending' = pending + 1
    /\ made' = made + 1
    /\ line' = line + 1
    /\ IF pending + 1 > dns_threads /\ dns_threads < MaxThreads
       THEN \E created \in CreateOutcomes :
              IF created
              THEN /\ dns_threads' = dns_threads + 1
                   /\ wpc' = [wpc EXCEPT ![dns_threads + 1] = "get"]
                   /\ mpc' = "signal"
              ELSE /\ mpc' = "lines"
                   /\ UNCHANGED <<dns_threads, wpc>>
       ELSE /\ mpc' = "signal"
            /\ UNCHANGED <<dns_threads, wpc>>
    /\ UNCHANGED <<wreq, wleft, attempts, finished, resolved>>

\* dns_signal_threads(): pthread_cond_signal wakes one waiting worker, if
\* any, to re-check its predicate.
SignalOne ==
    IF \E t \in Threads : wpc[t] = "waiting"
    THEN \E t \in {u \in Threads : wpc[u] = "waiting"} : wpc' = [wpc EXCEPT ![t] = "wait"]
    ELSE UNCHANGED wpc

dns_signal_threads ==
    /\ mpc = "signal"
    /\ SignalOne
    /\ mpc' = "lines"
    /\ UNCHANGED <<ips, line, requests, replies, pending, made, dns_threads,
                   wreq, wleft, attempts, finished, resolved>>

\* End of file: dns_done() returns at once if no request was ever made.
dns_done_start ==
    /\ mpc = "lines" /\ line > Len(Hosts)
    /\ mpc' = IF made = 0 THEN "returned" ELSE "done"
    /\ UNCHANGED <<ips, line, requests, replies, pending, made, dns_threads,
                   worker, attempts, finished, resolved>>

\* while(dns_requests_pending) { dns_process_replies(ips); ...
dns_done_loop ==
    /\ mpc = "done"
    /\ IF pending # 0
       THEN /\ ProcessReplies
            /\ mpc' = "recheck"
       ELSE /\ mpc' = "final"
            /\ UNCHANGED <<ips, replies>>
    /\ UNCHANGED <<line, requests, pending, made, dns_threads,
                   worker, attempts, finished, resolved>>

\* ... if(dns_requests_pending) { dns_signal_threads(); sleep(1); } }
dns_done_recheck ==
    /\ mpc = "recheck"
    /\ IF pending # 0 THEN SignalOne ELSE UNCHANGED wpc
    /\ mpc' = "done"
    /\ UNCHANGED <<ips, line, requests, replies, pending, made, dns_threads,
                   wreq, wleft, attempts, finished, resolved>>

\* Mutant: the loop's exit is taken as the end, without the last drain.
dns_done_final_no_drain ==
    /\ mpc = "final"
    /\ mpc' = "returned"
    /\ UNCHANGED <<ips, replies, line, requests, pending, made, dns_threads,
                   worker, attempts, finished, resolved>>

\* The last dns_process_replies(ips) after the loop; ipset_load returns.
dns_done_final ==
    /\ mpc = "final"
    /\ ProcessReplies
    /\ mpc' = "returned"
    /\ UNCHANGED <<line, requests, pending, made, dns_threads,
                   worker, attempts, finished, resolved>>

-----------------------------------------------------------------------------
(* Worker threads (dns_thread_resolve)                                     *)

\* dns_request_get(): pop the head request under the lock, or go and wait.
dns_request_get(t) ==
    /\ wpc[t] = "get"
    /\ IF requests # <<>>
       THEN /\ wreq' = [wreq EXCEPT ![t] = Head(requests)]
            /\ requests' = Tail(requests)
            /\ wpc' = [wpc EXCEPT ![t] = "resolve"]
       ELSE /\ wpc' = [wpc EXCEPT ![t] = "wait"]
            /\ UNCHANGED <<wreq, requests>>
    /\ UNCHANGED <<ips, line, mpc, replies, pending, made, dns_threads,
                   wleft, attempts, finished, resolved>>

\* dns_thread_wait_for_requests(): under dns_mut, while(!dns_requests)
\* pthread_cond_wait; the wait releases dns_mut atomically.
dns_thread_wait(t) ==
    /\ wpc[t] = "wait"
    /\ wpc' = [wpc EXCEPT ![t] = IF requests # <<>> THEN "get" ELSE "waiting"]
    /\ UNCHANGED <<ips, line, mpc, requests, replies, pending, made, dns_threads,
                   wreq, wleft, attempts, finished, resolved>>

\* Mutant: the pending count is not decremented.
RequestDone_keeps_pending(t) ==
    /\ pending' = pending
    /\ finished' = finished \cup {wreq[t].host}
    /\ wreq' = [wreq EXCEPT ![t] = NoReq]
    /\ wpc' = [wpc EXCEPT ![t] = "get"]

\* dns_request_done(): pending--, under the lock; the request is freed.
RequestDone(t) ==
    /\ pending' = pending - 1
    /\ finished' = finished \cup {wreq[t].host}
    /\ wreq' = [wreq EXCEPT ![t] = NoReq]
    /\ wpc' = [wpc EXCEPT ![t] = "get"]

\* Mutant: EAI_AGAIN re-pushes the request whatever tries it has left.
getaddrinfo_retry_always(t) ==
    /\ wpc[t] = "resolve"
    /\ LET d == wreq[t] IN
       /\ attempts' = [attempts EXCEPT ![d.host] = @ + 1]
       /\ \/ /\ wleft' = [wleft EXCEPT ![t] = Answers[d.host]]
             /\ wpc' = [wpc EXCEPT ![t] = "push"]
             /\ resolved' = resolved \cup {d.host}
             /\ UNCHANGED <<requests, pending, wreq, finished>>
          \/ /\ requests' = <<[d EXCEPT !.tries = @ - 1]>> \o requests
             /\ wreq' = [wreq EXCEPT ![t] = NoReq]
             /\ wpc' = [wpc EXCEPT ![t] = "get"]
             /\ UNCHANGED <<pending, wleft, finished, resolved>>
          \/ /\ RequestDone(t)
             /\ UNCHANGED <<requests, wleft, resolved>>
    /\ UNCHANGED <<ips, line, mpc, replies, made, dns_threads>>

\* Mutant: a failed request is freed without dns_request_done().
getaddrinfo_fail_no_done(t) ==
    /\ wpc[t] = "resolve"
    /\ LET d == wreq[t] IN
       /\ attempts' = [attempts EXCEPT ![d.host] = @ + 1]
       /\ \/ /\ wleft' = [wleft EXCEPT ![t] = Answers[d.host]]
             /\ wpc' = [wpc EXCEPT ![t] = "push"]
             /\ resolved' = resolved \cup {d.host}
             /\ UNCHANGED <<requests, pending, wreq, finished>>
          \/ /\ d.tries > 0
             /\ requests' = <<[d EXCEPT !.tries = @ - 1]>> \o requests
             /\ wreq' = [wreq EXCEPT ![t] = NoReq]
             /\ wpc' = [wpc EXCEPT ![t] = "get"]
             /\ UNCHANGED <<pending, wleft, finished, resolved>>
          \/ /\ wreq' = [wreq EXCEPT ![t] = NoReq]
             /\ wpc' = [wpc EXCEPT ![t] = "get"]
             /\ UNCHANGED <<requests, pending, wleft, finished, resolved>>
    /\ UNCHANGED <<ips, line, mpc, replies, made, dns_threads>>

\* getaddrinfo(): success, EAI_AGAIN or a permanent error.  On EAI_AGAIN
\* dns_request_failed() re-pushes the request with one try less while
\* d->tries > 0, without signalling; otherwise the request is done.
getaddrinfo(t) ==
    /\ wpc[t] = "resolve"
    /\ LET d == wreq[t] IN
       /\ attempts' = [attempts EXCEPT ![d.host] = @ + 1]
       /\ \/ /\ wleft' = [wleft EXCEPT ![t] = Answers[d.host]]
             /\ wpc' = [wpc EXCEPT ![t] = "push"]
             /\ resolved' = resolved \cup {d.host}
             /\ UNCHANGED <<requests, pending, wreq, finished>>
          \/ /\ d.tries > 0
             /\ requests' = <<[d EXCEPT !.tries = @ - 1]>> \o requests
             /\ wreq' = [wreq EXCEPT ![t] = NoReq]
             /\ wpc' = [wpc EXCEPT ![t] = "get"]
             /\ UNCHANGED <<pending, wleft, finished, resolved>>
          \/ /\ RequestDone(t)
             /\ UNCHANGED <<requests, wleft, resolved>>
    /\ UNCHANGED <<ips, line, mpc, replies, made, dns_threads>>

\* One address of the answer pushed on dns_replies under its lock.
push_reply(t) ==
    /\ wpc[t] = "push"
    /\ \E ip \in wleft[t] :
           /\ replies' = <<ip>> \o replies
           /\ wleft' = [wleft EXCEPT ![t] = @ \ {ip}]
    /\ UNCHANGED <<ips, line, mpc, requests, pending, made, dns_threads,
                   wpc, wreq, attempts, finished, resolved>>

\* Mutant: the request is finished before its last address is pushed.
resolve_done_early(t) ==
    /\ wpc[t] = "push"
    /\ RequestDone(t)
    /\ UNCHANGED <<ips, line, mpc, requests, replies, made, dns_threads,
                   wleft, attempts, resolved>>

\* After the last address, dns_request_done().
resolve_done(t) ==
    /\ wpc[t] = "push" /\ wleft[t] = {}
    /\ RequestDone(t)
    /\ UNCHANGED <<ips, line, mpc, requests, replies, made, dns_threads,
                   wleft, attempts, resolved>>

-----------------------------------------------------------------------------

Main == dns_request \/ dns_signal_threads \/ dns_done_start \/ dns_done_loop
        \/ dns_done_recheck \/ dns_done_final

Worker(t) == dns_request_get(t) \/ dns_thread_wait(t) \/ getaddrinfo(t)
             \/ push_reply(t) \/ resolve_done(t)

Next == Main \/ \E t \in Threads : Worker(t)

\* The scheduler keeps running every runnable thread; a worker blocked in
\* pthread_cond_wait is not runnable until signalled.
Fairness == WF_vars(Main) /\ \A t \in Threads : WF_vars(Worker(t))

Spec == Init /\ [][Next]_vars /\ Fairness

-----------------------------------------------------------------------------

TypeOK ==
    /\ ips.netaddrs \in Seq(NetAddr)
    /\ line \in 1..(Len(Hosts) + 1)
    /\ requests \in Seq(Request) /\ replies \in Seq(Addr)
    /\ pending \in Nat /\ made \in Nat /\ dns_threads \in 0..MaxThreads
    /\ wpc \in [Threads -> {"none", "get", "wait", "waiting", "resolve", "push"}]
    /\ wreq \in [Threads -> Request \cup {NoReq}]
    /\ wleft \in [Threads -> SUBSET Addr]

Holding == {t \in Threads : wreq[t] # NoReq}
Queued  == {requests[i].host : i \in DOMAIN requests}
Issued  == {Hosts[i] : i \in 1..(line - 1)}

\* Every request read from the file is, at every moment, in exactly one
\* place: on the stack, held by one worker, or finished; and
\* dns_requests_pending counts exactly the unfinished ones, across the
\* re-push of a retried request and the decrement by whichever worker
\* finishes it.
RequestAccounting ==
    /\ pending = Len(requests) + Cardinality(Holding)
    /\ pending + Cardinality(finished) = line - 1
    /\ Issued = finished \cup Queued \cup {wreq[t].host : t \in Holding}

\* When dns_done() returns, every request has been resolved or given up,
\* nothing is left on either stack, and the ipset holds exactly the
\* addresses of the hostnames that resolved (the comment of dns_request:
\* "the resolved IPs are in the ipset you supplied").
ResolvedOnReturn ==
    mpc = "returned" =>
        /\ pending = 0 /\ requests = <<>> /\ replies = <<>>
        /\ finished = HostSet
        /\ AddrsOf(ips.netaddrs) = UNION {Answers[h] : h \in resolved}

\* dns_done() eventually returns: the workers created lazily, the signals
\* of dns_request and the periodic re-signal of dns_done are enough for
\* every request to be served.
DoneReturns == <>(mpc = "returned")

\* The refinement mapping: the hostname lines read, the names getaddrinfo
\* answered, the requests dns_request_done() finished, the addresses the
\* ipset covers, and the return of dns_done().
Batch == INSTANCE DNSBatch WITH
             read     <- line - 1,
             answered <- resolved,
             closed   <- finished,
             have     <- AddrsOf(ips.netaddrs),
             returned <- (mpc = "returned")

\* The thread pool implements the contract of dns_request()/dns_done():
\* only the main thread, inside those calls, adds addresses to the ipset,
\* only addresses of answered names and never removing one; each request
\* ends once whatever its retries; and dns_done() returns with every
\* answered address in the ipset.
ImplementsDNSBatch == Batch!Spec

\* The retry budget of a hostname: getaddrinfo is called at most d->tries
\* times (spec: 20 consecutive transient failures are a permanent failure).
AttemptsWithinBudget == \A h \in HostSet : attempts[h] <= Tries

=============================================================================
