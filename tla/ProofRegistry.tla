---------------------------- MODULE ProofRegistry ----------------------------
(***************************************************************************)
(* The proof registry (proof-registry): verify_registry reads the nodes    *)
(* and the edges of a registry one by one, keeping who owns each claim and *)
(* what each node has received, then unwinds the graph from its roots;     *)
(* query_registry answers where a claim comes from and where it goes.      *)
(* A registry is a sequence of nodes [id, claims, inputs, frozen, pinned]  *)
(* and a sequence of edges [id, from, to, carries]; a node is pinned when  *)
(* its artifact is the blob that the declared commit holds.                *)
(***************************************************************************)
EXTENDS Naturals, FiniteSets, Sequences, SequencesExt

CONSTANTS
    Nodes,        \* the rows that a registry's nodes may be
    Edges,        \* the rows that its edges may be
    MaxNodes,     \* bounds of a registry
    MaxEdges

RegistryAssumption == MaxNodes \in Nat \ {0} /\ MaxEdges \in Nat

VARIABLES
    rows, links,  \* the registry on disk
    phase,        \* "nodes", "edges", "unwind", "pass" or "fail"
    at,           \* how many rows of the phase have been read
    owner,        \* the claims met so far, each with its owner: pairs
    incoming,     \* the claims received so far: pairs of node and claim
    degree,       \* node -> edges that still lead to it
    queue,        \* nodes ready to be visited
    visited,      \* the order in which nodes were visited
    answer        \* the last answer of a query, or NoAnswer

vars == <<rows, links, phase, at, owner, incoming, degree, queue, visited, answer>>
NoAnswer == [owner |-> {}, up |-> {}, down |-> {}, consumers |-> {}]

Ids == {rows[i].id : i \in DOMAIN rows}
Row(n) == CHOOSE r \in ToSet(rows) : r.id = n
Read == {rows[i].id : i \in 1..at}

Init ==
    /\ rows \in SeqOf(Nodes, MaxNodes) \ {<<>>} /\ links \in SeqOf(Edges, MaxEdges)
    /\ phase = "nodes" /\ at = 0
    /\ owner = {} /\ incoming = {} /\ degree = <<>> /\ queue = <<>> /\ visited = <<>>
    /\ answer = NoAnswer

-----------------------------------------------------------------------------
Unowned(r) == \A o \in owner : o.claim \notin r.claims

NodeStands(r) ==
    /\ r.id \notin Read /\ r.frozen
    /\ r.claims # {} /\ r.claims \cap r.inputs = {}
    /\ Unowned(r) /\ r.pinned

(* The first row that does not stand ends the verification. *)
Fail == phase' = "fail" /\ UNCHANGED <<rows, links, at, owner, incoming, degree, queue, visited, answer>>

ReadNode ==
    /\ phase = "nodes" /\ at < Len(rows)
    /\ LET r == rows[at + 1] IN
       IF ~NodeStands(r) THEN Fail
       ELSE /\ at' = at + 1 /\ owner' = owner \cup {[claim |-> c, node |-> r.id] : c \in r.claims}
            /\ UNCHANGED <<rows, links, phase, incoming, degree, queue, visited, answer>>

StartEdges ==
    /\ phase = "nodes" /\ at = Len(rows)
    /\ phase' = "edges" /\ at' = 0 /\ degree' = [n \in Ids |-> 0]
    /\ UNCHANGED <<rows, links, owner, incoming, queue, visited, answer>>

(* What the target has received from earlier edges. *)
Received(n) == {p.claim : p \in {q \in incoming : q.node = n}}

Carried(e) ==
    /\ e.carries # {} /\ e.carries \subseteq Row(e.from).claims /\ e.carries \subseteq Row(e.to).inputs
    /\ Received(e.to) \cap e.carries = {}

EdgeStands(e) ==
    /\ e.id \notin {links[i].id : i \in 1..at}
    /\ {e.from, e.to} \subseteq Ids /\ e.from # e.to
    /\ Carried(e)

ReadEdge ==
    /\ phase = "edges" /\ at < Len(links)
    /\ LET e == links[at + 1] IN
       IF ~EdgeStands(e) THEN Fail
       ELSE /\ at' = at + 1 /\ incoming' = incoming \cup {[node |-> e.to, claim |-> c] : c \in e.carries}
            /\ degree' = [degree EXCEPT ![e.to] = @ + 1]
            /\ UNCHANGED <<rows, links, phase, owner, queue, visited, answer>>

(* Every node has received what it declares, and the roots start the queue. *)
HandedOver == \A n \in Ids : Received(n) = Row(n).inputs

Handoff ==
    /\ phase = "edges" /\ at = Len(links)
    /\ IF ~HandedOver THEN Fail
       ELSE /\ phase' = "unwind" /\ queue' = SetToSeq({n \in Ids : degree[n] = 0})
            /\ UNCHANGED <<rows, links, at, owner, incoming, degree, visited, answer>>

EdgesBetween(n, m) == Cardinality({i \in DOMAIN links : links[i].from = n /\ links[i].to = m})

(* A visited node releases its targets, once per edge. *)
Visit ==
    /\ phase = "unwind" /\ queue # <<>>
    /\ LET n == Head(queue)
           left == [m \in Ids |-> degree[m] - EdgesBetween(n, m)]
       IN /\ visited' = Append(visited, n) /\ degree' = left
          /\ queue' = Tail(queue) \o SetToSeq({m \in Ids : degree[m] > 0 /\ left[m] = 0})
    /\ UNCHANGED <<rows, links, phase, at, owner, incoming, answer>>

Unwound_NotChecked == TRUE
Unwound == Len(visited) = Cardinality(Ids)

Conclude ==
    /\ phase = "unwind" /\ queue = <<>>
    /\ phase' = IF Unwound THEN "pass" ELSE "fail"
    /\ UNCHANGED <<rows, links, at, owner, incoming, degree, queue, visited, answer>>

-----------------------------------------------------------------------------
(* query_registry: breadth first along the edges, one way or the other. *)
Along(found, way) == {e[IF way = "up" THEN "from" ELSE "to"] :
                        e \in {x \in ToSet(links) : x[IF way = "up" THEN "to" ELSE "from"] \in found}}

Closure(start, way) ==
    LET reach[i \in 0..Len(links)] ==
            IF i = 0 THEN {} ELSE reach[i - 1] \cup Along(reach[i - 1] \cup {start}, way)
    IN reach[Len(links)]

Query(c) ==
    LET o == CHOOSE n \in Ids : c \in Row(n).claims IN
    /\ phase = "pass" /\ \E n \in Ids : c \in Row(n).claims
    /\ answer' = [owner |-> {o}, up |-> Closure(o, "up"), down |-> Closure(o, "down"),
                  consumers |-> {e.to : e \in {x \in ToSet(links) : c \in x.carries}}]
    /\ UNCHANGED <<rows, links, phase, at, owner, incoming, degree, queue, visited>>

Next ==
    \/ ReadNode \/ StartEdges \/ ReadEdge \/ Handoff \/ Visit \/ Conclude
    \/ \E c \in UNION {r.claims : r \in Nodes} : Query(c)

Spec == Init /\ [][Next]_vars

-----------------------------------------------------------------------------
Place(n) == CHOOSE i \in DOMAIN visited : visited[i] = n

(* In a registry that passes, every claim has one owner, every input of a  *)
(* node arrived along exactly one edge and from that owner, and the order  *)
(* reported puts every producer before its consumers: no proof stands,     *)
(* however indirectly, on itself (verify_registry.py, README.md "Core      *)
(* rule").  What a query then answers is consistent with it: those who use *)
(* a claim are downstream of its owner, and nobody is on both sides.       *)
PassIsLineage ==
    phase = "pass" =>
        /\ IsInjective(rows) /\ Len(visited) = Len(rows) /\ ToSet(visited) = Ids
        /\ \A e \in ToSet(links) : Place(e.from) < Place(e.to)
        /\ \A n \in Ids : \A c \in Row(n).inputs :
              /\ Cardinality({i \in DOMAIN links : links[i].to = n /\ c \in links[i].carries}) = 1
              /\ \E i \in DOMAIN links : links[i].to = n /\ c \in links[i].carries
                                         /\ {m \in Ids : c \in Row(m).claims} = {links[i].from}
        /\ answer.consumers \subseteq answer.down /\ (answer.up \cup answer.owner) \cap answer.down = {}
        /\ \A u \in answer.up, o \in answer.owner : Place(u) < Place(o) /\ o \in Closure(u, "down")
        /\ \A o \in answer.owner, e \in ToSet(links) :
              e.to \in answer.up \cup answer.owner => e.from \in answer.up
=============================================================================
