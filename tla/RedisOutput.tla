---------------------------- MODULE RedisOutput ----------------------------
(* The output to Redis (modules/output/redis).  All outputs share one         *)
(* connection and one thredis object.  thredis_command sends a command,       *)
(* appends its caller to the list of waiters and sleeps on a condition        *)
(* variable of its own; the reader thread hands each reply to the oldest      *)
(* waiter.  redis_release closes the shared connection for every output.      *)
(* The server is external: it answers commands in order or the connection     *)
(* breaks.  Spurious wake-ups of pthread_cond_wait are left out.              *)
EXTENDS Integers, Sequences

CONSTANTS RedisThreads,  \* threads that call redis_send
          MaxBreaks      \* bound: connections that break

ASSUME RedisAssumption == RedisThreads \cap {"none", "reader", "closer"} = {}

NullReply == <<-1, -1>>
NoReply   == <<-2, -2>>

VARIABLES conn,      \* the globals redis and thredis: "none", "open", "closing" or "freed"
          usable,    \* thredis->redis is not null
          broken,    \* the connection failed
          rmutex,    \* holder of thredis->mutex: a thread, "reader", "closer" or "none"
          waiters,   \* wait_head .. wait_tail
          server,    \* commands sent and not yet answered
          inbound,   \* replies in the socket
          buffered,  \* replies in hiredis' reader
          rstep,     \* [RedisThreads -> where the thread is in redis_send]
          sent,      \* [RedisThreads -> its command]
          reply,     \* [RedisThreads -> wait.reply]
          reader,    \* where the reader thread is
          target,    \* the waiter the reader is about to wake up
          breaks

rvars == <<conn, usable, broken, rmutex, waiters, server, inbound, buffered, rstep, sent, reply,
           reader, target, breaks>>

NoConnection ==
    /\ usable' = FALSE /\ broken' = FALSE
    /\ rmutex' = "none"
    /\ waiters' = <<>> /\ server' = <<>> /\ inbound' = <<>> /\ buffered' = <<>>
    /\ reader' = "off" /\ target' = "none"

RedisStart ==
    /\ conn = "none" /\ usable = FALSE /\ broken = FALSE
    /\ rmutex = "none"
    /\ waiters = <<>> /\ server = <<>> /\ inbound = <<>> /\ buffered = <<>>
    /\ rstep = [t \in RedisThreads |-> "out"]
    /\ sent = [t \in RedisThreads |-> NoReply]
    /\ reply = [t \in RedisThreads |-> NoReply]
    /\ reader = "off" /\ target = "none"
    /\ breaks = 0

\* redis_init and thredis_new: only the first output connects (a failure aborts the process)
RedisInit ==
    IF conn = "none"
    THEN /\ conn' = "open" /\ usable' = TRUE /\ reader' = "poll"
         /\ UNCHANGED <<broken, rmutex, waiters, server, inbound, buffered, rstep, sent, reply, target, breaks>>
    ELSE UNCHANGED rvars
-----------------------------------------------------------------------------
\* redis_send, entered with the message m, when redis is not null
RedisEnter(t, m) ==
    /\ rstep[t] = "out" /\ conn # "none"
    /\ rstep' = [rstep EXCEPT ![t] = "lock"]
    /\ sent' = [sent EXCEPT ![t] = m]
    /\ reply' = [reply EXCEPT ![t] = NoReply]
    /\ UNCHANGED <<conn, usable, broken, rmutex, waiters, server, inbound, buffered, reader, target, breaks>>

\* thredis_command locks the mutex; in an object that has been freed this is undefined and
\* the thread makes no further step here
CommandLock(t) ==
    /\ rstep[t] = "lock" /\ conn = "open" /\ rmutex = "none"
    /\ rmutex' = t
    /\ rstep' = [rstep EXCEPT ![t] = "locked"]
    /\ UNCHANGED <<conn, usable, broken, waiters, server, inbound, buffered, sent, reply, reader, target, breaks>>

\* an unusable or broken connection: unlock, return NULL
CommandFail(t) ==
    /\ rstep[t] = "locked" /\ (~usable \/ broken)
    /\ rmutex' = "none"
    /\ reply' = [reply EXCEPT ![t] = NullReply]
    /\ rstep' = [rstep EXCEPT ![t] = "done"]
    /\ UNCHANGED <<conn, usable, broken, waiters, server, inbound, buffered, sent, reader, target, breaks>>

\* Mutant: the waiter is put at the head of the list
PushWaiterFirst(t) == waiters' = <<t>> \o waiters

\* push_waiter
PushWaiter(t) == waiters' = Append(waiters, t)

\* append and flush the command, push_waiter, lock wait.mutex, unlock the connection
CommandSend(t) ==
    /\ rstep[t] = "locked" /\ usable /\ ~broken
    /\ server' = Append(server, sent[t])
    /\ PushWaiter(t)
    /\ rmutex' = "none"
    /\ rstep' = [rstep EXCEPT ![t] = "held"]
    /\ UNCHANGED <<conn, usable, broken, inbound, buffered, sent, reply, reader, target, breaks>>

\* pthread_cond_wait gives wait.mutex back
CommandWait(t) ==
    /\ rstep[t] = "held"
    /\ rstep' = [rstep EXCEPT ![t] = "waiting"]
    /\ UNCHANGED <<conn, usable, broken, rmutex, waiters, server, inbound, buffered, sent, reply, reader, target, breaks>>

\* the end of redis_send: the reply is read and freed
RedisLeave(t) ==
    /\ rstep[t] = "done"
    /\ rstep' = [rstep EXCEPT ![t] = "out"]
    /\ reply' = [reply EXCEPT ![t] = NoReply]
    /\ sent' = [sent EXCEPT ![t] = NoReply]
    /\ UNCHANGED <<conn, usable, broken, rmutex, waiters, server, inbound, buffered, reader, target, breaks>>

Command(t) == CommandLock(t) \/ CommandFail(t) \/ CommandSend(t) \/ CommandWait(t)
-----------------------------------------------------------------------------
\* the server answers the oldest command
ServerReply ==
    /\ server # <<>> /\ ~broken
    /\ inbound' = Append(inbound, Head(server))
    /\ server' = Tail(server)
    /\ UNCHANGED <<conn, usable, broken, rmutex, waiters, buffered, rstep, sent, reply, reader, target, breaks>>

ServerBreaks ==
    /\ conn = "open" /\ ~broken /\ breaks < MaxBreaks
    /\ broken' = TRUE
    /\ breaks' = breaks + 1
    /\ UNCHANGED <<conn, usable, rmutex, waiters, server, inbound, buffered, rstep, sent, reply, reader, target>>

\* reader_thread_main: poll returns, with data or an error
ReaderPoll ==
    /\ reader = "poll" /\ (inbound # <<>> \/ broken)
    /\ reader' = "lock"
    /\ UNCHANGED <<conn, usable, broken, rmutex, waiters, server, inbound, buffered, rstep, sent, reply, target, breaks>>

\* with the mutex, redisBufferRead takes everything that is in the socket
ReaderRead ==
    /\ reader = "lock" /\ rmutex = "none"
    /\ rmutex' = "reader"
    /\ reader' = IF broken THEN "fail" ELSE "deliver"
    /\ buffered' = IF broken THEN <<>> ELSE buffered \o inbound
    /\ inbound' = <<>>
    /\ UNCHANGED <<conn, usable, broken, waiters, server, rstep, sent, reply, target, breaks>>

\* deliver_reply, up to its lock of wait.mutex: pop_waiter, wait->reply = r
PopWaiter(r) ==
    /\ target' = Head(waiters)
    /\ waiters' = Tail(waiters)
    /\ reply' = [reply EXCEPT ![Head(waiters)] = r]

\* one reply of the reader's buffer, or none is left: unlock and poll again
ReaderDeliver ==
    /\ reader = "deliver" /\ target = "none"
    /\ IF buffered = <<>>
       THEN /\ reader' = "poll"
            /\ rmutex' = "none"
            /\ UNCHANGED <<waiters, reply, target, buffered>>
       ELSE /\ PopWaiter(Head(buffered))
            /\ buffered' = Tail(buffered)
            /\ UNCHANGED <<reader, rmutex>>
    /\ UNCHANGED <<conn, usable, broken, server, inbound, rstep, sent, breaks>>

\* an error: every waiter gets NULL, the connection is given up, the thread ends
ReaderFail ==
    /\ reader = "fail" /\ target = "none"
    /\ IF waiters = <<>>
       THEN /\ usable' = FALSE
            /\ reader' = "ended"
            /\ rmutex' = "none"
            /\ UNCHANGED <<waiters, reply, target>>
       ELSE /\ PopWaiter(NullReply)
            /\ UNCHANGED <<usable, reader, rmutex>>
    /\ UNCHANGED <<conn, broken, server, inbound, buffered, rstep, sent, breaks>>

\* Mutant: the waiter is signalled without its mutex, the signal comes before it sleeps
ReaderSignalUnlocked ==
    /\ target # "none"
    /\ target' = "none"
    /\ rstep' = IF rstep[target] = "waiting" THEN [rstep EXCEPT ![target] = "done"] ELSE rstep
    /\ UNCHANGED <<conn, usable, broken, rmutex, waiters, server, inbound, buffered, sent, reply, reader, breaks>>

\* the rest of deliver_reply: lock wait.mutex, which the waiter gives back by sleeping, signal
ReaderSignal ==
    /\ target # "none" /\ rstep[target] = "waiting"
    /\ target' = "none"
    /\ rstep' = [rstep EXCEPT ![target] = "done"]
    /\ UNCHANGED <<conn, usable, broken, rmutex, waiters, server, inbound, buffered, sent, reply, reader, breaks>>

Reader == ReaderPoll \/ ReaderRead \/ ReaderDeliver \/ ReaderFail \/ ReaderSignal
-----------------------------------------------------------------------------
\* redis_release and thredis_close: lock, cancel the reader thread
CloseLock ==
    /\ conn = "open" /\ rmutex = "none"
    /\ rmutex' = "closer"
    /\ conn' = "closing"
    /\ UNCHANGED <<usable, broken, waiters, server, inbound, buffered, rstep, sent, reply, reader, target, breaks>>

\* join it: a reader that waits for the mutex is not at a cancellation point.  Then unlock, free
CloseJoin ==
    /\ conn = "closing" /\ reader \in {"poll", "ended"}
    /\ conn' = "freed"
    /\ NoConnection
    /\ UNCHANGED <<rstep, sent, reply, breaks>>

\* the globals become NULL
CloseEnd ==
    /\ conn = "freed"
    /\ conn' = "none"
    /\ UNCHANGED <<usable, broken, rmutex, waiters, server, inbound, buffered, rstep, sent, reply, reader, target, breaks>>

RedisClose == CloseLock \/ CloseJoin \/ CloseEnd

RedisCrash ==
    /\ conn' = "none"
    /\ NoConnection
    /\ rstep' = [t \in RedisThreads |-> "out"]
    /\ sent' = [t \in RedisThreads |-> NoReply]
    /\ reply' = [t \in RedisThreads |-> NoReply]
    /\ UNCHANGED breaks
-----------------------------------------------------------------------------
(* thredis_command returns the reply to its own command, or NULL when the     *)
(* connection failed: several threads share the connection, and nothing but   *)
(* the order of push_waiter and pop_waiter ties replies to commands.          *)
OwnReply == \A t \in RedisThreads : reply[t] \in {NoReply, NullReply, sent[t]}

(* Threads do not stay blocked in redis_send, whether the server answers or   *)
(* the connection breaks at any moment: no wake-up is lost between            *)
(* push_waiter and pthread_cond_wait, and every waiter of a failed connection *)
(* is released.  The reports are bounded, so there is always a later moment   *)
(* without a sender.  Closing the connection is the exception.                *)
CommandReturns == []<>(conn # "open" \/ \A t \in RedisThreads : rstep[t] = "out")
=============================================================================
