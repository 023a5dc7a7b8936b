------------------------------ MODULE ArpServer ------------------------------
(***************************************************************************)
(* arp_server.cpp: genARPDiscovery passes the questions of the Ethernet    *)
(* header inserter on to arp_table and the answers back, unless the host   *)
(* has it scan the subnet; arp_table answers from what it knows and has    *)
(* arp_pkg_sender ask the network for what it does not; arp_pkg_receiver   *)
(* brings the network's answers and questions.                             *)
(* A MAC address is named by the IP address whose owner has it.            *)
(***************************************************************************)
EXTENDS OneAnswerEach

CONSTANTS Nets, MyNet,    \* the first three octets of an address; ours
          Local,          \* the nets inside our network mask
          LastOctet,      \* the fourth octet: 255
          Gateway,        \* gatewayIP
          Asked,          \* addresses that packets are sent to
          Hosts,          \* addresses whose owners answer
          ArpDepth,       \* arpReplyFifo, arpRequestFifo, arpTableInsertFifo: 4
          PortDepth,      \* the registers of macIpEncode_req and macIpEncode_rsp
          HostScans,      \* whether the host writes arp_scan
          None

Octets == 0 .. LastOctet
Addresses == [net : Nets, octet : Octets]

ConstantsOK ==
    /\ LastOctet \in Nat
    /\ MyNet \in Local /\ Local \subseteq Nets
    /\ Gateway \in Addresses /\ Gateway.net \in Local
    /\ Asked \subseteq Addresses /\ Hosts \subseteq Addresses
    /\ Depth \in Nat /\ Depth >= 3
    /\ ArpDepth \in Nat \ {0} /\ PortDepth \in Nat \ {0}
    /\ HostScans \in BOOLEAN
    /\ None \notin Addresses

ASSUME ArpAssumption == ConstantsOK

VARIABLES
    arpTable,              \* whose MAC address an entry has, or None: not valid
    inserts,               \* arpTableInsertFifo
    arpRequests,           \* arpRequestFifo
    arpReplies,            \* arpReplyFifo, its length
    sending,               \* aps_fsmState
    idle,                  \* checkArpScan
    ip_lsb, arp_scan, arp_scan_1d

discovery == <<state, idle, ip_lsb, arp_scan, arp_scan_1d>>
sender    == <<arpReplies, sending>>
vars == <<requests, answers, toTable, fromTable, arpTable, inserts, arpRequests,
          sender, discovery, questions>>

Answers == Addresses \cup {None}

TypeOK ==
    /\ requests \in Seq(Addresses) /\ Len(requests) <= PortDepth
    /\ answers \in Seq(Answers) /\ Len(answers) <= PortDepth
    /\ toTable \in Seq(Addresses) /\ Len(toTable) <= Depth
    /\ fromTable \in Seq(Answers) /\ Len(fromTable) <= Depth
    /\ arpTable \in [Octets -> Answers]
    /\ inserts \in Seq(Addresses) /\ Len(inserts) <= ArpDepth
    /\ arpRequests \in Seq(Addresses) /\ Len(arpRequests) <= ArpDepth
    /\ arpReplies \in 0 .. ArpDepth
    /\ sending \in {"ARP_IDLE", "ARP_REPLY", "ARP_SENTRQ"}
    /\ state \in {"FWD", "FWD_ANSWER", "SETUP", "GEN_IP", "WAIT_RESPONSE"}
    /\ idle \in BOOLEAN
    /\ ip_lsb \in Octets
    /\ arp_scan \in {0, 1} /\ arp_scan_1d \in {0, 1}
    /\ questions \in Seq(Addresses)

Init ==
    /\ requests = <<>> /\ answers = <<>> /\ toTable = <<>> /\ fromTable = <<>>
    /\ arpTable = [o \in Octets |-> None]
    /\ inserts = <<>> /\ arpRequests = <<>>
    /\ arpReplies = 0 /\ sending = "ARP_IDLE"
    /\ state = "FWD" /\ idle = FALSE /\ ip_lsb = 0
    /\ arp_scan = 0 /\ arp_scan_1d = 0
    /\ questions = <<>>

(* Where a packet for ip is sent to.                                       *)
NextHop(ip) == IF ip.net \in Local THEN ip ELSE Gateway
-----------------------------------------------------------------------------
(* genARPDiscovery.                                                        *)

(* FWD: first a question ...                                               *)
ForwardRequest ==
    /\ state = "FWD"
    /\ IF requests # <<>>
         THEN /\ Len(toTable) < Depth
              /\ toTable' = Append(toTable, Head(requests))
              /\ requests' = Tail(requests)
         ELSE UNCHANGED <<toTable, requests>>
    /\ idle' = (requests = <<>>)
    /\ state' = "FWD_ANSWER"
    /\ UNCHANGED <<fromTable, answers, ip_lsb, arp_scan, arp_scan_1d>>

ScanStarts(quiet) == quiet /\ arp_scan_1d = 0 /\ arp_scan = 1

(* Variant: an answer is only looked for when there was no question.       *)
ForwardAnswerElse ==
    /\ state = "FWD_ANSWER"
    /\ IF idle /\ fromTable # <<>>
         THEN /\ Len(answers) < PortDepth
              /\ answers' = Append(answers, Head(fromTable))
              /\ fromTable' = Tail(fromTable)
         ELSE UNCHANGED <<fromTable, answers>>
    /\ IF ScanStarts(idle \/ fromTable = <<>>)
         THEN state' = "SETUP" /\ arp_scan' = 0 /\ arp_scan_1d' = 0
         ELSE state' = "FWD" /\ arp_scan_1d' = arp_scan /\ UNCHANGED arp_scan
    /\ UNCHANGED <<toTable, requests, idle, ip_lsb>>

(* ... then an answer; the scan starts on the rising edge of arp_scan, in  *)
(* an iteration in which one of the two was missing.                       *)
ForwardAnswer ==
    /\ state = "FWD_ANSWER"
    /\ IF fromTable # <<>>
         THEN /\ Len(answers) < PortDepth
              /\ answers' = Append(answers, Head(fromTable))
              /\ fromTable' = Tail(fromTable)
         ELSE UNCHANGED <<fromTable, answers>>
    /\ IF ScanStarts(idle \/ fromTable = <<>>)
         THEN state' = "SETUP" /\ arp_scan' = 0 /\ arp_scan_1d' = 0
         ELSE state' = "FWD" /\ arp_scan_1d' = arp_scan /\ UNCHANGED arp_scan
    /\ UNCHANGED <<toTable, requests, idle, ip_lsb>>

Setup ==
    /\ state = "SETUP"
    /\ ip_lsb' = 0
    /\ state' = "GEN_IP"
    /\ arp_scan_1d' = arp_scan
    /\ UNCHANGED <<requests, answers, toTable, fromTable, idle, arp_scan>>

NextOctet == ip_lsb' = (ip_lsb + 1) % (LastOctet + 1)

GenIp ==
    /\ state = "GEN_IP"
    /\ Len(toTable) < Depth
    /\ toTable' = Append(toTable, [net |-> MyNet, octet |-> ip_lsb])
    /\ NextOctet
    /\ state' = "WAIT_RESPONSE"
    /\ arp_scan_1d' = arp_scan
    /\ UNCHANGED <<requests, answers, fromTable, idle, arp_scan>>

WaitResponse ==
    /\ state = "WAIT_RESPONSE"
    /\ IF fromTable # <<>>
         THEN /\ fromTable' = Tail(fromTable)
              /\ state' = IF ip_lsb = 0 THEN "FWD" ELSE "GEN_IP"
         ELSE UNCHANGED <<fromTable, state>>
    /\ arp_scan_1d' = arp_scan
    /\ UNCHANGED <<requests, answers, toTable, idle, ip_lsb, arp_scan>>

Discovery ==
    /\ ForwardRequest \/ ForwardAnswer \/ Setup \/ GenIp \/ WaitResponse
    /\ UNCHANGED <<arpTable, inserts, arpRequests, sender, questions>>
-----------------------------------------------------------------------------
(* arp_table.                                                              *)

Insert ==
    /\ inserts # <<>>
    /\ arpTable' = [arpTable EXCEPT ![Head(inserts).octet] = Head(inserts)]
    /\ inserts' = Tail(inserts)
    /\ UNCHANGED <<toTable, fromTable, arpRequests>>

(* Variant: a question that is not answered from the table gets no answer. *)
AnswerHitsOnly ==
    LET known == arpTable[NextHop(Head(toTable)).octet] IN
    /\ inserts = <<>> /\ toTable # <<>>
    /\ Len(fromTable) < Depth
    /\ toTable' = Tail(toTable)
    /\ IF known = None
         THEN /\ Len(arpRequests) < ArpDepth
              /\ arpRequests' = Append(arpRequests, Head(toTable))
              /\ UNCHANGED fromTable
         ELSE fromTable' = Append(fromTable, known) /\ UNCHANGED arpRequests
    /\ UNCHANGED <<arpTable, inserts>>

(* Only the last octet of the address is looked at.                        *)
Answer ==
    LET known == arpTable[NextHop(Head(toTable)).octet] IN
    /\ inserts = <<>> /\ toTable # <<>>
    /\ Len(fromTable) < Depth
    /\ toTable' = Tail(toTable)
    /\ fromTable' = Append(fromTable, known)
    /\ IF known = None
         THEN Len(arpRequests) < ArpDepth
              /\ arpRequests' = Append(arpRequests, Head(toTable))
         ELSE UNCHANGED arpRequests
    /\ UNCHANGED <<arpTable, inserts>>

ArpTable ==
    /\ Insert \/ Answer
    /\ UNCHANGED <<requests, answers, sender, discovery, questions>>
-----------------------------------------------------------------------------
(* arp_pkg_sender: the network's questions first.                          *)
PickReply ==
    /\ sending = "ARP_IDLE" /\ arpReplies > 0
    /\ arpReplies' = arpReplies - 1
    /\ sending' = "ARP_REPLY"
    /\ UNCHANGED arpRequests

PickRequest ==
    /\ sending = "ARP_IDLE" /\ arpReplies = 0 /\ arpRequests # <<>>
    /\ arpRequests' = Tail(arpRequests)
    /\ sending' = "ARP_SENTRQ"
    /\ UNCHANGED arpReplies

Sent ==
    /\ sending # "ARP_IDLE"
    /\ sending' = "ARP_IDLE"
    /\ UNCHANGED <<arpReplies, arpRequests>>

Sender ==
    /\ PickReply \/ PickRequest \/ Sent
    /\ UNCHANGED <<requests, answers, toTable, fromTable, arpTable, inserts,
                   discovery, questions>>

(* arp_pkg_receiver.                                                       *)
ReceiveReply(ip) ==
    /\ Len(inserts) < ArpDepth
    /\ inserts' = Append(inserts, ip)
    /\ UNCHANGED <<requests, answers, toTable, fromTable, arpTable, arpRequests,
                   sender, discovery, questions>>

ReceiveRequest ==
    /\ arpReplies < ArpDepth
    /\ arpReplies' = arpReplies + 1
    /\ UNCHANGED <<requests, answers, toTable, fromTable, arpTable, inserts,
                   arpRequests, sending, discovery, questions>>

(* ethernet_header_inserter, which looks for the next hop itself (its      *)
(* subnet is the gateway's), and the host.                                 *)
Ask(ip) ==
    /\ Len(requests) < PortDepth
    /\ requests' = Append(requests, NextHop(ip))
    /\ questions' = Append(questions, ip)
    /\ UNCHANGED <<answers, toTable, fromTable, arpTable, inserts, arpRequests,
                   sender, discovery>>

ReadAnswer ==
    /\ answers # <<>>
    /\ answers' = Tail(answers)
    /\ questions' = Tail(questions)
    /\ UNCHANGED <<requests, toTable, fromTable, arpTable, inserts, arpRequests,
                   sender, discovery>>

WriteScan ==
    /\ HostScans /\ arp_scan = 0
    /\ arp_scan' = 1
    /\ UNCHANGED <<requests, answers, toTable, fromTable, arpTable, inserts, arpRequests,
                   sender, state, idle, ip_lsb, arp_scan_1d, questions>>

AskSome == \E ip \in Asked : Ask(ip)
Network == ReceiveRequest \/ \E ip \in Hosts : ReceiveReply(ip)

Next == Discovery \/ ArpTable \/ Sender \/ Network \/ AskSome \/ ReadAnswer \/ WriteScan

Spec == Init /\ [][Next]_vars

(* Each process runs in each clock cycle.                                  *)
Fairness == WF_vars(Discovery) /\ WF_vars(ArpTable) /\ WF_vars(Sender) /\ WF_vars(ReadAnswer)
FairSpec == Spec /\ Fairness
-----------------------------------------------------------------------------
(* Properties: those of OneAnswerEach, and what must happen in the end.    *)

(* Once the host and the network pause, a scan comes to its end, whatever  *)
(* answers it took for its own, and every question is answered.            *)
Quiet == <>[][~Network /\ ~WriteScan]_vars
EveryQuestionAnswered == Quiet => []<>(questions = <<>> \/ answers # <<>>)
ScanEnds == Quiet => <>[](state \in {"FWD", "FWD_ANSWER"})
=============================================================================
