---------------------------- MODULE BrokerOutput ----------------------------
(* The outputs to MongoDB, Kafka and sockets (modules/output/mongodb, kafka   *)
(* and socket).  The client libraries and the servers are external: what they *)
(* accepted is recorded in database, delivered and socket_last.  A message is *)
(* a pair of its output and its number.                                       *)
EXTENDS Integers, Sequences

CONSTANTS Clients,        \* ids of the outputs
          CacheMax,       \* messages_max_limit
          KafkaMax,       \* queue.buffering.max.messages
          SocketType,     \* sockets socket-output.type asks for: "unix", "internet" or both
          MaxRefused      \* bound: calls the servers refuse

ASSUME BrokerAssumption == CacheMax \in Nat \ {0} /\ KafkaMax \in Nat \ {0}

VARIABLES mongoc,         \* the client library: "off", "on" or "cleaned"
          mongo_open,     \* outputs that have a connection to MongoDB
          messages_cache, \* [Clients -> messages not yet inserted]
          database,       \* messages MongoDB holds
          rd_queue,       \* [Clients -> messages librdkafka holds]
          kafka_last,     \* [Clients -> number of the last message produced]
          delivered,      \* [Clients -> number of the last message the broker took]
          rd_producer,    \* outputs that have a Kafka producer
          socket_fd,      \* [Clients -> the sockets that are connected]
          socket_last,    \* [Clients -> number of the last message sent]
          mongo_lost, kafka_lost, socket_lost,  \* messages given up with an error
          refused

bvars == <<mongoc, mongo_open, messages_cache, database, rd_queue, delivered,
           kafka_last, rd_producer, socket_fd, socket_last, mongo_lost, kafka_lost, socket_lost, refused>>
mongo_vars  == <<mongoc, mongo_open, messages_cache, database, mongo_lost>>
kafka_vars  == <<rd_producer, rd_queue, delivered, kafka_last, kafka_lost>>
socket_vars == <<socket_fd, socket_last, socket_lost>>

BrokerInit ==
    /\ mongoc = "off" /\ mongo_open = {}
    /\ messages_cache = [o \in Clients |-> <<>>]
    /\ database = <<>>
    /\ rd_queue = [o \in Clients |-> <<>>]
    /\ delivered = [o \in Clients |-> 0]
    /\ kafka_last = [o \in Clients |-> 0]
    /\ rd_producer = {}
    /\ socket_fd = [o \in Clients |-> {}]
    /\ socket_last = [o \in Clients |-> 0]
    /\ mongo_lost = {} /\ kafka_lost = {} /\ socket_lost = {} /\ refused = 0

Refuse == refused < MaxRefused /\ refused' = refused + 1

-----------------------------------------------------------------------------
\* mongodb_output_alloc_init: the first caller initialises the library
MongoInit(o) ==
    /\ mongoc' = IF mongoc = "off" THEN "on" ELSE mongoc
    /\ mongo_open' = mongo_open \cup {o}
    /\ messages_cache' = [messages_cache EXCEPT ![o] = <<>>]
    /\ UNCHANGED <<database, mongo_lost>>

\* mongodb_output_flush_to_database of the batch s: insert_many takes all or fails
MongoInsert(s) ==
    \/ /\ database' = database \o s
       /\ UNCHANGED <<mongo_lost, refused>>
    \/ /\ s # <<>> /\ Refuse
       /\ mongo_lost' = mongo_lost \cup {s[i] : i \in DOMAIN s}
       /\ UNCHANGED database

\* Mutant: the cache is flushed by time without being emptied
MongoFlushNoReset(o) ==
    /\ MongoInsert(messages_cache[o])
    /\ UNCHANGED <<mongoc, mongo_open, messages_cache>>

\* mongodb_output_flush_to_database of the cache of o
MongoFlush(o) ==
    /\ MongoInsert(messages_cache[o])
    /\ messages_cache' = [messages_cache EXCEPT ![o] = <<>>]
    /\ UNCHANGED <<mongoc, mongo_open>>

\* Mutant: the cache is flushed one message too late
MongoWriteLate(o, m) ==
    LET s == Append(messages_cache[o], m) IN
    /\ IF Len(s) <= CacheMax
       THEN /\ messages_cache' = [messages_cache EXCEPT ![o] = s]
            /\ UNCHANGED <<database, mongo_lost, refused>>
       ELSE MongoInsert(s) /\ messages_cache' = [messages_cache EXCEPT ![o] = <<>>]
    /\ UNCHANGED <<mongoc, mongo_open>>

\* mongodb_output_write: a message that is not JSON is dropped, a full cache is flushed
MongoWrite(o, m) ==
    LET s == Append(messages_cache[o], m) IN
    /\ \/ /\ Refuse
          /\ mongo_lost' = mongo_lost \cup {m}
          /\ UNCHANGED <<messages_cache, database>>
       \/ /\ Len(s) < CacheMax
          /\ messages_cache' = [messages_cache EXCEPT ![o] = s]
          /\ UNCHANGED <<database, mongo_lost, refused>>
       \/ /\ Len(s) >= CacheMax
          /\ MongoInsert(s)
          /\ messages_cache' = [messages_cache EXCEPT ![o] = <<>>]
    /\ UNCHANGED <<mongoc, mongo_open>>

\* mongodb_output_release: the first caller closes the library for everybody
MongoRelease(o) ==
    /\ MongoInsert(messages_cache[o])
    /\ messages_cache' = [messages_cache EXCEPT ![o] = <<>>]
    /\ mongo_open' = mongo_open \ {o}
    /\ mongoc' = "cleaned"

-----------------------------------------------------------------------------
\* kafka_output_init: without a producer or a topic the channel stays NULL for good
KafkaInit(o, ok) ==
    /\ rd_producer' = IF ok THEN rd_producer \cup {o} ELSE rd_producer
    /\ UNCHANGED <<rd_queue, delivered, kafka_last, kafka_lost>>

\* kafka_output_send: a full queue is polled until there is room (the action waits),
\* any other error drops the message
KafkaSend(o, m) ==
    /\ \/ /\ o \in rd_producer
          /\ Len(rd_queue[o]) < KafkaMax
          /\ rd_queue' = [rd_queue EXCEPT ![o] = Append(@, m)]
          /\ kafka_last' = [kafka_last EXCEPT ![o] = m[2]]
          /\ UNCHANGED <<kafka_lost, refused>>
       \/ /\ o \in rd_producer /\ Refuse
          /\ kafka_lost' = kafka_lost \cup {m}
          /\ UNCHANGED <<rd_queue, kafka_last>>
       \/ /\ o \notin rd_producer
          /\ UNCHANGED <<rd_queue, kafka_last, kafka_lost, refused>>
    /\ UNCHANGED <<rd_producer, delivered>>

\* librdkafka's thread and the broker; dr_msg_cb only logs a failure
KafkaDeliver(o) ==
    /\ rd_queue[o] # <<>>
    /\ rd_queue' = [rd_queue EXCEPT ![o] = Tail(@)]
    /\ \/ delivered' = [delivered EXCEPT ![o] = Head(rd_queue[o])[2]] /\ UNCHANGED <<kafka_lost, refused>>
       \/ Refuse /\ kafka_lost' = kafka_lost \cup {Head(rd_queue[o])} /\ UNCHANGED delivered
    /\ UNCHANGED <<rd_producer, kafka_last>>

\* kafka_output_release: rd_kafka_destroy drops what has not been delivered
KafkaRelease(o) ==
    /\ kafka_lost' = kafka_lost \cup {rd_queue[o][i] : i \in DOMAIN rd_queue[o]}
    /\ rd_queue' = [rd_queue EXCEPT ![o] = <<>>]
    /\ rd_producer' = rd_producer \ {o}
    /\ UNCHANGED <<delivered, kafka_last>>

-----------------------------------------------------------------------------
\* socket_output_init: fds are the sockets of the configured type whose connect succeeded;
\* nobody tries the others again
SocketInit(o, fds) ==
    /\ fds \subseteq SocketType
    /\ socket_fd' = [socket_fd EXCEPT ![o] = fds]
    /\ UNCHANGED <<socket_last, socket_lost>>

\* socket_output_send: MSG_DONTWAIT, a message is lost when every send would block
SocketSend(o, m) ==
    /\ \/ /\ socket_fd[o] # {}
          /\ socket_last' = [socket_last EXCEPT ![o] = m[2]]
          /\ UNCHANGED <<socket_lost, refused>>
       \/ /\ socket_fd[o] # {} /\ Refuse
          /\ socket_lost' = socket_lost \cup {m}
          /\ UNCHANGED socket_last
       \/ /\ socket_fd[o] = {}
          /\ UNCHANGED <<socket_last, socket_lost, refused>>
    /\ UNCHANGED socket_fd

\* socket_output_release
SocketRelease(o) ==
    /\ socket_fd' = [socket_fd EXCEPT ![o] = {}]
    /\ UNCHANGED <<socket_last, socket_lost>>

\* the process dies: what is only in memory is lost
BrokerCrash ==
    /\ mongoc' = "off" /\ mongo_open' = {}
    /\ messages_cache' = [o \in Clients |-> <<>>]
    /\ mongo_lost' = mongo_lost \cup UNION {{messages_cache[o][i] : i \in DOMAIN messages_cache[o]} : o \in Clients}
    /\ rd_queue' = [o \in Clients |-> <<>>]
    /\ kafka_lost' = kafka_lost \cup UNION {{rd_queue[o][i] : i \in DOMAIN rd_queue[o]} : o \in Clients}
    /\ rd_producer' = {}
    /\ socket_fd' = [o \in Clients |-> {}]
    /\ UNCHANGED <<database, delivered, kafka_last, socket_last, socket_lost, refused>>
=============================================================================
