--------------------------- MODULE HttpReconstruct ---------------------------
(* Files rebuilt from HTTP and FTP traffic (modules/dpi/reconstruct).  Each   *)
(* HTTP request of a TCP session gets an http_session_t; the answer opens a   *)
(* file, data is appended, and the file is closed and reported by the end of  *)
(* the message, by the next request or by the end of the session.             *)
EXTENDS Integers, Sequences, FiniteSets

CONSTANTS HttpSessions, Uris,
          MaxHttp,        \* bound on the HTTP attributes handled
          MaxHttpFaults   \* bound on failed fopen

VARIABLES http,           \* packet_session_t.http_session, NoHttp when NULL
          disk,           \* the files in the output directory: <<name, form>>
          opened,         \* number of files opened
          reports,        \* HTTP_RECONSTRUCT_REPORT_TYPE messages
          ftp,            \* bytes appended to the file of each FTP session
          handled, http_faults

hvars == <<http, disk, opened, reports, ftp, handled, http_faults>>

NoHttp == [state |-> "null"]
HttpInit ==
    /\ http = [s \in HttpSessions |-> NoHttp]
    /\ disk = {} /\ opened = 0 /\ reports = <<>>
    /\ ftp = [s \in HttpSessions |-> 0]
    /\ handled = 0 /\ http_faults = 0

\* the name: session id, host and URI
FileName(s, uri) == <<s, uri>>

\* chunk_decode of the chunks of one packet, each a size and whether its data, its line end
\* and its size line are complete: the bytes up to the last chunk, 0 when badly formatted
ChunkDecode(chunks) ==
    LET stop == {i \in DOMAIN chunks : chunks[i].size = 0 \/ ~chunks[i].complete}
        last == IF stop = {} THEN Len(chunks) ELSE CHOOSE i \in stop : \A j \in stop : i <= j
        f[i \in 0..last] == IF i = 0 THEN 0 ELSE f[i - 1] + chunks[i].size
    IN  IF \E i \in 1..last : chunks[i].size # 0 /\ ~chunks[i].line THEN 0 ELSE f[last]

\* the data of the answer's own packet: decoded if that works, else as it is
FirstData(raw, chunks) == IF chunks = <<>> \/ ChunkDecode(chunks) = 0 THEN raw ELSE ChunkDecode(chunks)

\* zip_decode: the plain file appears, or is removed when the data is corrupted
ZipDecode(files, name, ok) == IF ok THEN files \cup {<<name, "plain">>} ELSE files \ {<<name, "plain">>}

\* the status of a file when it is closed
FlushStatus(h, ok) ==
    IF h.data = 0 \/ (h.length # 0 /\ h.data # h.length) THEN "incomplete"
    ELSE CASE h.encoding = "gzip" -> IF ok THEN "success" ELSE "corrupted"
           [] h.encoding = "none" -> "success"
           [] OTHER -> "unsupported"

\* http_reconstruct_flush_session_to_file_and_free, ok: the compressed data can be decoded
Flush(h, ok) ==
    IF h = NoHttp \/ h.file = 0 THEN UNCHANGED <<disk, reports>>
    ELSE LET status == FlushStatus(h, ok)
             decode == h.encoding = "gzip" /\ status \in {"success", "corrupted"}
             files == IF decode THEN ZipDecode(disk, h.name, ok) ELSE disk
         IN  /\ disk' = IF decode /\ ok THEN files \ {<<h.name, "gzip">>} ELSE files
             /\ reports' = Append(reports, [id |-> h.file, name |-> h.name, status |-> status,
                                            encoding |-> h.encoding])

\* _http_method_handle: close what the previous request left
HttpMethod(s, uri, ok) ==
    /\ Flush(http[s], ok)
    /\ http' = [http EXCEPT ![s] = [state |-> "requested", name |-> FileName(s, uri), file |-> 0,
                                    data |-> 0, length |-> 0, encoding |-> "none"]]
    /\ UNCHANGED <<opened, ftp, http_faults>>

\* a compressed file carries its encoding as a second extension
Form(encoding) == IF encoding \in {"gzip", "deflate", "compress"} THEN encoding ELSE "plain"

\* _create_file
CreateFile(s, answer) ==
    /\ disk' = disk \cup {<<http[s].name, Form(answer.encoding)>>}
    /\ opened' = opened + 1
    /\ http' = [http EXCEPT ![s] = [@ EXCEPT !.state = "open", !.file = opened + 1, !.data = answer.data,
                                             !.length = answer.length, !.encoding = answer.encoding]]
    /\ UNCHANGED http_faults

CreateFileFails(s, answer) ==
    /\ http_faults < MaxHttpFaults
    /\ http_faults' = http_faults + 1
    /\ http' = [http EXCEPT ![s] = [@ EXCEPT !.name = <<s, http[s].name>>, !.length = answer.length,
                                             !.encoding = answer.encoding]]
    /\ UNCHANGED <<disk, opened>>

\* _http_response_handle: the answer that opens the file, with the first chunk of data
HttpResponse(s, answer) ==
    /\ IF ~answer.ok200 \/ http[s] = NoHttp \/ http[s].file # 0
       THEN UNCHANGED <<http, disk, opened, http_faults>>
       ELSE CreateFile(s, answer) \/ CreateFileFails(s, answer)
    /\ UNCHANGED <<reports, ftp>>

\* _http_data_handle and _append_data: only what comes from the server
HttpData(s, size, from_server) ==
    /\ http' = IF http[s] # NoHttp /\ http[s].file # 0 /\ from_server
               THEN [http EXCEPT ![s].data = @ + size] ELSE http
    /\ UNCHANGED <<disk, opened, reports, ftp, http_faults>>

\* Mutant: the pointer to the freed session stays
HttpEndMessageDangling(s, ok) ==
    /\ Flush(http[s], ok)
    /\ UNCHANGED <<http, opened, ftp, http_faults>>

\* _http_end_message_handle
HttpEndMessage(s, ok) ==
    /\ IF http[s] = NoHttp \/ http[s].file = 0
       THEN UNCHANGED <<http, disk, reports>>
       ELSE http' = [http EXCEPT ![s] = NoHttp] /\ Flush(http[s], ok)
    /\ UNCHANGED <<opened, ftp, http_faults>>

\* the end of the session: _ending_session_handler flushes what is left
HttpEndSession(s) ==
    /\ \E ok \in BOOLEAN : Flush(http[s], ok)
    /\ http' = [http EXCEPT ![s] = NoHttp]
    /\ UNCHANGED <<opened, ftp, handled, http_faults>>

\* _ftp_data_type_handle: the payload of a data packet is appended to the file of the session
FtpData(s, packet) ==
    /\ ftp' = IF packet.type = 1 /\ packet.named /\ packet.len > 0 THEN [ftp EXCEPT ![s] = @ + packet.len] ELSE ftp
    /\ UNCHANGED <<http, disk, opened, reports, http_faults>>

\* _get_content_length, _get_content_encoding, _get_tranfer_encoding: what a header line says,
\* and what its absence or a value the tables do not know stands for
HeaderLine(lines, name, known, default) ==
    IF name \in DOMAIN lines /\ lines[name] \in known THEN lines[name] ELSE default

Encodings == {"gzip", "deflate", "compress", "br", "identity"}

\* an answer: its header lines, the bytes of its packet and the chunks they can be read as
Answer(ok200, lines, raw, chunks) ==
    [ok200 |-> ok200,
     encoding |-> HeaderLine(lines, "content", Encodings, "none"),
     length |-> HeaderLine(lines, "length", Nat, 0),
     data |-> FirstData(raw, IF HeaderLine(lines, "transfer", {"chunked"}, "none") = "chunked" THEN chunks ELSE <<>>)]

\* refused; with a length; compressed and chunked; badly chunked; compressed in an unknown way
Chunk(size, line, complete) == [size |-> size, line |-> line, complete |-> complete]
Chunked == [content |-> "gzip", transfer |-> "chunked"]
Answers ==
    {Answer(FALSE, Chunked, 0, <<>>),
     Answer(TRUE, [length |-> 2], 1, <<Chunk(4, TRUE, TRUE)>>),
     Answer(TRUE, [content |-> "identity"], 1, <<>>),
     Answer(TRUE, Chunked, 9, <<Chunk(1, TRUE, TRUE), Chunk(1, TRUE, FALSE), Chunk(4, TRUE, TRUE)>>),
     Answer(TRUE, [content |-> "gzip", transfer |-> "chunked", length |-> 2], 1, <<Chunk(1, FALSE, TRUE)>>),
     Answer(TRUE, [content |-> "deflate", transfer |-> "chunked", length |-> 1], 1, <<Chunk(1, TRUE, TRUE)>>)}

\* one attribute of an HTTP packet
HttpAttribute(s) ==
    /\ handled < MaxHttp
    /\ handled' = handled + 1
    /\ \/ \E uri \in Uris, ok \in BOOLEAN : HttpMethod(s, uri, ok)
       \/ \E answer \in Answers : HttpResponse(s, answer)
       \/ \E from_server \in BOOLEAN : HttpData(s, 1, from_server)
       \/ \E ok \in BOOLEAN : HttpEndMessage(s, ok)

FtpPacket(s) ==
    /\ handled < MaxHttp
    /\ handled' = handled + 1
    /\ \E type \in 0..1, named \in BOOLEAN, len \in 0..1 :
          FtpData(s, [type |-> type, named |-> named, len |-> len])
=============================================================================
