--------------------------- MODULE AttributeReports ---------------------------
(* Reports made when DPI sees an attribute: event-based reports, RADIUS       *)
(* accounting, LTE topology and LTE quality of service (modules/dpi/report,   *)
(* modules/dpi/lte).                                                          *)
EXTENDS Naturals, Sequences, FiniteSets

CONSTANTS RadiusCode,     \* reports.radius.message_code, 0 to report all
          Ues,            \* ids of user equipments (0: not seen)
          MaxAttributes   \* bound

VARIABLES qos,            \* lte_qos_report_t: ue_id, teid, qci
          topology,       \* what a reader of the topology reports knows: elements and links
          told,           \* reports so far, per kind
          last_event,     \* the values of the last event report
          attributes      \* attributes handled

avars == <<qos, topology, told, last_event, attributes>>

Kinds == {"event", "radius", "lte_topology", "lte_qos"}

AttributeInit ==
    /\ qos = [ue_id |-> 0, teid |-> 0, qci |-> 0]
    /\ topology = [elements |-> {}, links |-> {}]
    /\ told = [k \in Kinds |-> 0]
    /\ last_event = <<>> /\ attributes = 0

Tell(k) == told' = [told EXCEPT ![k] = @ + 1]

\* the value an attribute of an event report gets: quoted strings, 0 or "" when absent
\* (_is_string, _process_ieee802154_src_dst)
EventValue(a) ==
    CASE a.present /\ a.string -> "quoted"
      [] a.present /\ ~a.string -> "number"
      [] ~a.present /\ a.string -> "empty"
      [] OTHER -> "zero"

\* _event_report_handle: one value per configured attribute, present or not
EventMessage(extracted) == [i \in DOMAIN extracted |-> EventValue(extracted[i])]

EventReport(event, extracted) ==
    /\ IF event.present THEN Tell("event") /\ last_event' = EventMessage(extracted)
                        ELSE UNCHANGED <<told, last_event>>
    /\ UNCHANGED <<qos, topology>>

\* _radius_code_handle
RadiusReport(session, code, calling_station, framed_ip) ==
    /\ IF session /\ (RadiusCode = 0 \/ code = RadiusCode) /\ calling_station /\ framed_ip
       THEN Tell("radius") ELSE UNCHANGED told
    /\ UNCHANGED <<qos, topology, last_event>>

\* _build_msg_to_add_new_entity, _build_msg_to_add_new_link, _build_msg_to_rm_entity,
\* _build_msg_to_rm_link: what the message does to the topology of its reader
AddEntity(id)       == topology' = [topology EXCEPT !.elements = @ \cup {id}]
AddLink(id, parent) == topology' = [topology EXCEPT !.links = @ \cup {<<id, parent>>}]
RemoveEntity(id)    == topology' = [elements |-> topology.elements \ {id},
                                    links |-> {l \in topology.links : id \notin {l[1], l[2]}}]
RemoveLink(id)      == topology' = [topology EXCEPT !.links = {l \in @ : l[1] # id}]

\* _got_s1ap_packet; addressed: the entity's address can be printed
GotS1ap(entity) ==
    /\ CASE entity.status = "ATTACHING" /\ entity.addressed -> AddEntity(entity.id) /\ Tell("lte_topology")
         [] entity.status = "ATTACHED" /\ entity.parent # 0 -> AddLink(entity.id, entity.parent) /\ Tell("lte_topology")
         [] entity.status \in {"DETACHING", "LOST_SIGNAL"} -> RemoveLink(entity.id) /\ Tell("lte_topology")
         [] entity.status = "DETACHED" -> RemoveEntity(entity.id) /\ Tell("lte_topology")
         [] OTHER -> UNCHANGED <<topology, told>>
    /\ UNCHANGED <<qos, last_event>>

\* _got_data: one of the three values has come; a report when all are there
GotQos(field, value) ==
    LET new == [qos EXCEPT ![field] = value]
        full == new.ue_id # 0 /\ new.teid # 0 /\ new.qci # 0
    IN  /\ qos' = IF full THEN [new EXCEPT !.qci = 0] ELSE new
        /\ IF full THEN Tell("lte_qos") ELSE UNCHANGED told
        /\ UNCHANGED <<topology, last_event>>

\* the attributes DPI may see, for the registered reports
Extractions == {<<[present |-> a, string |-> b]>> : a, b \in BOOLEAN}
Statuses == {"ATTACHING", "ATTACHED", "DETACHING", "LOST_SIGNAL", "DETACHED", "UNKNOWN"}

EventAttribute ==
    \E a \in BOOLEAN, x \in Extractions : EventReport([present |-> a], x)
RadiusAttribute ==
    \E session, station, ip \in BOOLEAN, code \in 1..2 : RadiusReport(session, code, station, ip)
LteAttribute ==
    \/ \E id \in Ues, status \in Statuses, parent \in Ues \cup {0}, addressed \in BOOLEAN :
          GotS1ap([id |-> id, status |-> status, parent |-> parent, addressed |-> addressed])
    \/ \E field \in {"ue_id", "teid", "qci"}, value \in Ues : GotQos(field, value)

Attribute(kind) ==
    /\ attributes < MaxAttributes
    /\ attributes' = attributes + 1
    /\ CASE kind = "event" -> EventAttribute
         [] kind = "radius" -> RadiusAttribute
         [] kind = "lte" -> LteAttribute
=============================================================================
