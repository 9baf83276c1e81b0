------------------------------ MODULE Browser ------------------------------
(***************************************************************************)
(* The one-shot mDNS browser (server/src/matter/mdns_browser.rs): a query  *)
(* on every link, answers folded into one map until the window closes, and *)
(* what get_node_ip_addresses and get_thread_border_routers make of it;    *)
(* and the walk of a compressed name.                                      *)
(*                                                                         *)
(* An answer is the sequence of its records.  A name is the instance's     *)
(* label and whether it is spelt in capitals: names are kept as spelt and  *)
(* compared without regard to case.  An address is its place in the order  *)
(* in which Matter prefers to dial addresses.  A record of another service *)
(* is foreign, and an answer that cannot be parsed has no records.         *)
(***************************************************************************)
EXTENDS Integers, Sequences, SequencesExt

CONSTANTS
    Answers,        \* what responders send
    Interfaces,     \* what getifaddrs may list: sequences of entries
    MaxAnswers,     \* bound: answers that arrive
    NameCells,      \* cells of a message with names: labels, ends and pointers
    NameLength,     \* bound: cells of such a message
    MaxJumps        \* pointers followed in one name

ASSUME BrowserAssumption ==
    /\ {MaxAnswers, NameLength, MaxJumps} \subseteq Nat
    /\ \A answer \in Answers :
          answer \in Seq(ToSet(answer)) /\ \A r \in ToSet(answer) : r.address \in Nat
    /\ \A entries \in Interfaces :
          entries \in Seq(ToSet(entries)) /\ \A e \in ToSet(entries) : e.index \in Nat \ {0}
    /\ \A c \in NameCells :
          c.kind \in {"label", "end", "pointer"} /\ (c.kind = "pointer" => c.to \in Nat \ {0})

VARIABLES
    browse,     \* "off", "v4", "v6", "links", "listen", "done" or "failed"
    responder,  \* the interfaces there were and the one mDNS runs on
    asked,      \* the links the query went out on, 0 for IPv4
    links,      \* the interfaces the IPv6 query has still to go out on
    found,      \* the instances: a function of their names, as spelt
    heard,      \* history: the answers that arrived
    cells,      \* a message with a name in it
    walk        \* the walk of that name

browserVars == <<browse, responder, asked, links, found, heard>>
nameVars == <<cells, walk>>

-----------------------------------------------------------------------------
(* The query.                                                              *)

\* Mutant: an interface is listed once for each of its addresses.
LinksRepeated(entries) ==
    LET fit == SelectSeq(entries, LAMBDA e : e.up /\ ~ e.loopback /\ e.family = "v6")
    IN  [i \in 1 .. Len(fit) |-> fit[i].index]

\* ipv6_interfaces: getifaddrs lists an entry for each address.
HasLink(e) == e.up /\ ~ e.loopback /\ e.family = "v6"
LinksOf(entries) ==
    LET after[i \in 0 .. Len(entries)] ==
            IF i = 0 THEN <<>>
            ELSE IF HasLink(entries[i]) /\ ~ Contains(after[i - 1], entries[i].index)
                 THEN Append(after[i - 1], entries[i].index) ELSE after[i - 1]
    IN  after[Len(entries)]

\* The socket may not be had, nor the query go out: the browse goes on.
AskV4(ok) ==
    /\ browse = "v4"
    /\ asked' = IF ok THEN <<0>> ELSE <<>>
    /\ browse' = "v6"
    /\ UNCHANGED <<responder, links, found, heard>>

AskV6(ok, entries) ==
    /\ browse = "v6"
    /\ links' = IF ok THEN LinksOf(entries) ELSE <<>>
    /\ browse' = "links"
    /\ UNCHANGED <<responder, asked, found, heard>>

AskLink(ok) ==
    /\ browse = "links" /\ links # <<>>
    /\ asked' = IF ok THEN Append(asked, Head(links)) ELSE asked
    /\ links' = Tail(links)
    /\ UNCHANGED <<responder, browse, found, heard>>

Asked ==
    /\ browse = "links" /\ links = <<>>
    /\ browse' = IF asked = <<>> THEN "failed" ELSE "listen"
    /\ UNCHANGED <<responder, asked, links, found, heard>>

Considered(entries) == {i \in 1 .. Len(entries) : entries[i].up /\ ~ entries[i].loopback}

\* Mutant: an interface is considered as far as it is listed in one piece.
AdjacentAddresses(entries, i) ==
    {entries[j].family : j \in {k \in Considered(entries) :
        k >= i /\ \A l \in Considered(entries) \cap i .. k : entries[l].index = entries[i].index}}

\* select_interface, for the responder: the families of the addresses that an
\* interface has, wherever in the list they are, and the first interface with
\* both.
Addresses(entries, i) ==
    {entries[j].family : j \in {k \in Considered(entries) : entries[k].index = entries[i].index}}
SelectInterface(entries) ==
    LET both == {i \in Considered(entries) : {"v4", "v6"} \subseteq Addresses(entries, i)}
    IN  IF both = {} THEN 0 ELSE entries[Min(both)].index

\* prepare_mdns: the server does not run without an interface, nor when the
\* socket cannot be bound to it.
NotPrepared == [listed |-> <<>>, index |-> 0, bound |-> FALSE]
PrepareMdns(entries, bound) ==
    /\ browse = "off" /\ responder = NotPrepared
    /\ responder' = [listed |-> entries, index |-> SelectInterface(entries), bound |-> bound]
    /\ browse' = IF responder'.index = 0 \/ ~ bound THEN "off" ELSE "v4"
    /\ UNCHANGED <<asked, links, found, heard>>

-----------------------------------------------------------------------------
(* collect_answers.                                                        *)

NoHost == "none"
NoInstance == [port |-> FALSE, host |-> NoHost, addresses |-> <<>>, txt |-> {}]

\* Mutant: an instance that is named again is made anew.
EntryAfresh(map, name) == NoInstance

\* entry(..).or_insert_with(..).
Entry(map, name) == IF name \in DOMAIN map THEN map[name] ELSE NoInstance
PutInstance(map, name, instance) ==
    [n \in DOMAIN map \cup {name} |-> IF n = name THEN instance ELSE map[n]]

\* The first pass: PTR, SRV and TXT records.
Establish(map, r) ==
    IF r.foreign \/ r.type \notin {"PTR", "SRV", "TXT"} THEN map
    ELSE PutInstance(map, r.name,
             CASE r.type = "PTR" -> Entry(map, r.name)
               [] r.type = "SRV" ->
                     [Entry(map, r.name) EXCEPT !.port = TRUE,
                          !.host = IF r.host = NoHost THEN @ ELSE r.host]
               [] r.type = "TXT" -> [Entry(map, r.name) EXCEPT !.txt = @ \cup r.txt])

Established(map, answer) ==
    LET after[i \in 0 .. Len(answer)] ==
            IF i = 0 THEN map ELSE Establish(after[i - 1], answer[i])
    IN  after[Len(answer)]

\* host_to_instance, of one answer: the last SRV that names the host.
Naming(answer, host) ==
    {i \in 1 .. Len(answer) : /\ answer[i].type = "SRV" /\ ~ answer[i].foreign
                              /\ answer[i].host = host}

\* The second pass: an address goes to the instance on its host, or to the
\* only instance there is.
Owner(map, answer, host) ==
    IF Naming(answer, host) # {} THEN {answer[Max(Naming(answer, host))].name}
    ELSE {n \in DOMAIN map : DOMAIN map = {n}}
Attach(map, answer, r) ==
    [n \in DOMAIN map |->
        IF /\ r.type = "ADDRESS" /\ n \in Owner(map, answer, r.host)
           /\ ~ Contains(map[n].addresses, r.address)
        THEN [map[n] EXCEPT !.addresses = Append(@, r.address)]
        ELSE map[n]]

Attached(map, answer) ==
    LET after[i \in 0 .. Len(answer)] ==
            IF i = 0 THEN map ELSE Attach(after[i - 1], answer, answer[i])
    IN  after[Len(answer)]

CollectAnswers(map, answer) == Attached(Established(map, answer), answer)

\* receive: an answer comes in over a family the query went out on.
ReceiveAnswer(answer) ==
    /\ browse = "listen" /\ Len(heard) < MaxAnswers
    /\ found' = CollectAnswers(found, answer)
    /\ heard' = Append(heard, answer)
    /\ UNCHANGED <<responder, browse, asked, links>>

Deadline ==
    /\ browse = "listen" /\ browse' = "done"
    /\ UNCHANGED <<responder, asked, links, found, heard>>

-----------------------------------------------------------------------------
(* What is made of the instances.                                          *)

\* The end of browse: an instance that was only pointed at is not usable.
Usable ==
    IF browse # "done" THEN {}
    ELSE {n \in DOMAIN found : found[n].port \/ found[n].addresses # <<>>}

\* sort_by_key: an address comes after those that are not to be dialled later.
PutInOrder(s, x) == InsertAt(s, Max({0} \cup {i \in 1 .. Len(s) : s[i] <= x}) + 1, x)
Sorted(s) ==
    LET after[i \in 0 .. Len(s)] == IF i = 0 THEN <<>> ELSE PutInOrder(after[i - 1], s[i])
    IN  after[Len(s)]

\* Vec::dedup drops what repeats the element before it.
Dedup(s) ==
    LET after[i \in 0 .. Len(s)] ==
            IF i = 0 THEN <<>>
            ELSE IF after[i - 1] # <<>> /\ Last(after[i - 1]) = s[i]
                 THEN after[i - 1] ELSE Append(after[i - 1], s[i])
    IN  after[Len(s)]

\* Mutant: repetitions are dropped before the addresses are sorted.
SortedAfterwards(s) == Sorted(Dedup(s))

Dialled(s) == Dedup(Sorted(s))

\* operational_addresses.
AddressesOf(names) ==
    LET after[i \in 0 .. Len(names)] ==
            IF i = 0 THEN <<>> ELSE after[i - 1] \o found[names[i]].addresses
    IN  after[Len(names)]
OperationalAddresses(label) ==
    Dialled(AddressesOf(SetToSeq({n \in Usable : n.label = label})))

\* get_thread_border_routers and border_router: a failed browse finds none.
BorderRouters ==
    {[label |-> n.label, host |-> found[n].host, addresses |-> ToSet(found[n].addresses),
      txt |-> found[n].txt] : n \in Usable}

-----------------------------------------------------------------------------
(* parse_name.  A message is a sequence of cells: a label, the end of a    *)
(* name, or a pointer to a cell.                                           *)

Start == [at |-> 1, labels |-> <<>>, jumps |-> 0, end |-> 0, state |-> "walking"]

\* Mutant: the end is where the walk last was.
EndOfWalk(end, next) == next

\* end_of_name.get_or_insert(..).
EndOfName(end, next) == IF end = 0 THEN next ELSE end

WalkOn(next) ==
    /\ walk.state = "walking" /\ walk' = next
    /\ UNCHANGED cells

\* Mutant: a pointer too many is followed.
MayAlwaysJump(jumps) == TRUE

MayJump(jumps) == jumps <= MaxJumps

WalkLabel ==
    /\ walk.at \in DOMAIN cells /\ cells[walk.at].kind = "label"
    /\ WalkOn([walk EXCEPT !.at = @ + 1, !.labels = Append(@, walk.at)])

WalkPointer ==
    /\ walk.at \in DOMAIN cells /\ cells[walk.at].kind = "pointer"
    /\ WalkOn([walk EXCEPT !.at = cells[walk.at].to, !.jumps = @ + 1,
                           !.end = EndOfName(@, walk.at + 1),
                           !.state = IF MayJump(walk.jumps + 1) THEN @ ELSE "none"])

WalkEnd ==
    /\ walk.at \in DOMAIN cells /\ cells[walk.at].kind = "end"
    /\ WalkOn([walk EXCEPT !.end = EndOfName(@, walk.at + 1), !.state = "name"])

\* The message is too short.
WalkOff ==
    /\ walk.at \notin DOMAIN cells
    /\ WalkOn([walk EXCEPT !.state = "none"])

-----------------------------------------------------------------------------
BrowserInit ==
    /\ browse = "off" /\ responder = NotPrepared /\ asked = <<>> /\ links = <<>>
    /\ found = [n \in {} |-> NoInstance] /\ heard = <<>>

BrowserNext ==
    \/ \E entries \in Interfaces, ok \in BOOLEAN : PrepareMdns(entries, ok) \/ AskV6(ok, entries)
    \/ \E ok \in BOOLEAN : AskV4(ok) \/ AskLink(ok)
    \/ Asked \/ Deadline
    \/ \E answer \in Answers : ReceiveAnswer(answer)

NameInit ==
    /\ cells \in [1 .. NameLength -> NameCells]
    /\ walk = Start

NameNext == WalkLabel \/ WalkPointer \/ WalkEnd \/ WalkOff

\* Browses, and the names in what they are sent.
BrowserSpec ==
    /\ BrowserInit /\ NameInit
    /\ [][\/ BrowserNext /\ UNCHANGED nameVars
          \/ NameNext /\ UNCHANGED browserVars]_<<browserVars, nameVars>>

-----------------------------------------------------------------------------
(* Properties.                                                             *)

\* Each link is asked at most once, whatever addresses its interface has, and
\* a browse fails only when the query went out on none: a network with one
\* family only is browsed over that (mdns_browser.rs:95).
OneFamilyIsEnough ==
    /\ \A i, j \in 1 .. Len(asked) : asked[i] = asked[j] => i = j
    /\ browse = "failed" => asked = <<>>

\* mDNS is to run on an interface that has addresses of both families, and one
\* is found when and only when there is one, in whatever order the addresses
\* are listed (ws/mod.rs:352); whether its socket can be bound is another matter.
ResponderHasItsLink ==
    LET Has(index, family) ==
            \E e \in ToSet(responder.listed) :
                e.index = index /\ e.family = family /\ e.up /\ ~ e.loopback
    IN  IF responder.index = 0
        THEN \A e \in ToSet(responder.listed) : ~ (Has(e.index, "v4") /\ Has(e.index, "v6"))
        ELSE Has(responder.index, "v4") /\ Has(responder.index, "v6")

\* The addresses an answer gives for the host of an instance: the one that the
\* last of its SRV records for that host names.
GivenBy(answer, name) ==
    {r.address : r \in {x \in ToSet(answer) :
        /\ x.type = "ADDRESS" /\ Naming(answer, x.host) # {}
        /\ answer[Max(Naming(answer, x.host))].name = name}}
Given(name) == UNION {GivenBy(answer, name) : answer \in ToSet(heard)}

\* The addresses of an answer that has no SRV for their host, and the instances
\* that were named up to an answer.
StraysOf(answer) ==
    {r.address : r \in {x \in ToSet(answer) : x.type = "ADDRESS" /\ Naming(answer, x.host) = {}}}
NamedBy(answer) ==
    {r.name : r \in {x \in ToSet(answer) : ~ x.foreign /\ x.type \in {"PTR", "SRV", "TXT"}}}
NamedUpTo(i) == UNION {NamedBy(heard[j]) : j \in 1 .. i}

\* Those that came while an instance was the only one named.
Strays(name) == UNION {StraysOf(heard[i]) : i \in {j \in 1 .. Len(heard) : NamedUpTo(j) = {name}}}

ToldBy(answer, name) ==
    UNION {r.txt : r \in {x \in ToSet(answer) : x.type = "TXT" /\ x.name = name /\ ~ x.foreign}}
Told(name) == UNION {ToldBy(answer, name) : answer \in ToSet(heard)}

\* A device that any answer announced is reported, with its TXT record also
\* when that came by itself, and with exactly these addresses, in whatever order
\* and however often the answers arrived: those that came in one answer with
\* the SRV that names it for their host, and those that came without an SRV
\* while no other device had been named.  Once another has been named, an
\* address that is split from its SRV is nobody's; and before its own device
\* is named it is the other's (mdns_browser.rs:461).
HeardIsReported ==
    browse = "done" =>
        \A answer \in ToSet(heard) :
            \A r \in {x \in ToSet(answer) : x.type = "SRV" /\ ~ x.foreign} :
                \E b \in BorderRouters :
                    /\ b.label = r.name.label
                    /\ b.addresses = Given(r.name) \cup Strays(r.name) /\ b.txt = Told(r.name)

\* A node's addresses are dialled in order and each once, also when the node
\* has announced itself under two spellings of its name.
EachAddressOnce ==
    \A label \in {n.label : n \in DOMAIN found} :
        LET list == OperationalAddresses(label) IN
        /\ \A i, j \in 1 .. Len(list) : i < j => list[i] < list[j]
        /\ ToSet(list) = UNION {ToSet(found[n].addresses) : n \in {m \in Usable : m.label = label}}

\* The walk of a name ends: each step reads a label or follows a pointer, and
\* there is an end to both, wherever the pointers lead (mdns_browser.rs:551).
NameWalkEnds ==
    /\ walk.state = "walking" => walk.jumps <= MaxJumps
    /\ Len(walk.labels) <= NameLength * (walk.jumps + 1)

\* The record after a name is looked for where the name as written ends, with
\* its first pointer or its end, wherever that pointer leads.
NameEndsWhereWritten ==
    walk.state = "name" =>
        /\ cells[walk.end - 1].kind # "label"
        /\ \A i \in 1 .. walk.end - 2 : cells[i].kind = "label"

\* A browse asks wherever it can, whatever could not be asked, and reports what
\* it heard, but for the addresses it cannot place (mdns_browser.rs:98).
BrowseIsWhole ==
    /\ OneFamilyIsEnough /\ ResponderHasItsLink /\ HeardIsReported /\ EachAddressOnce
    /\ NameWalkEnds /\ NameEndsWhereWritten
=============================================================================
