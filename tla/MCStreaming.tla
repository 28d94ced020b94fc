---------------------------- MODULE MCStreaming ----------------------------
(* A small instance of Streaming: a descriptor and two content blobs, three    *)
(* peers, and the companies of requests, operations and gets that meet.       *)
EXTENDS Streaming

CONSTANTS r1, r2, o1, o2, g1, g2, p1, p2, p3

MCRequest == {r1, r2}
MCOp == {o1, o2}
MCGet == {g1, g2}
MCPeer == {p1, p2, p3}

---------------------------------------------------------------------------
(* Streams of two blobs of four bytes: three and at most three bytes of text. *)

Info(num, length) == [num |-> num, length |-> length]

Descriptor == [intact |-> TRUE, blobs |-> <<Info(0, 4), Info(1, 4), Info(2, 0)>>]

FullStream == [descriptor |-> Descriptor, plain |-> << <<1, 2, 3>>, <<4, 5, 6>> >>, claim |-> 0,
               readable |-> TRUE, priced |-> FALSE]

ShortStream == [FullStream EXCEPT !.plain[2] = <<4, 5>>]

BadDescriptors ==
    {[Descriptor EXCEPT !.intact = FALSE], [Descriptor EXCEPT !.blobs[2].num = 2],
     [Descriptor EXCEPT !.blobs[1].length = 3], [Descriptor EXCEPT !.blobs[3].length = 4]}

Streams ==
    {FullStream} \union {[ShortStream EXCEPT !.claim = c] : c \in {0, 3, 4, 5, 7}}
        \union {[FullStream EXCEPT !.descriptor = d] : d \in BadDescriptors}
        \union {[FullStream EXCEPT !.readable = FALSE]}

Header(form, start, end) == [form |-> form, start |-> start, end |-> end]

Headers ==
    {Header("none", 0, 0), Header("malformed", 0, 0)}
        \union {Header("open", s, 0) : s \in {-1, 0, 2, 3, 6}}
        \union {Header("closed", s, e) : s \in {0, 2, 4}, e \in {1, 2, 3, 5, 6}}

---------------------------------------------------------------------------
(* Companies.                                                                 *)

AllBlobs == {0, 1, 2}

Nobody == [node |-> "off", found |-> {}, trackers |-> {}, fixed |-> {}, portless |-> {},
           kind |-> [p \in MCPeer |-> "lacks"]]

Report(ok, peers) == [ok |-> ok, peers |-> peers]

\* p1 is known to the DHT and a tracker, p2 to a tracker and p3 is a fixed peer.
Network(node, kinds) ==
    [node |-> node, found |-> {p1}, trackers |-> {Report(TRUE, {p1, p2}), Report(FALSE, {})},
     fixed |-> {Report(TRUE, {p3})}, portless |-> {}, kind |-> kinds]

Kinds(a, b, c) == [p \in MCPeer |-> CASE p = p1 -> a [] p = p2 -> b [] p = p3 -> c]

Networks ==
    {Network("up", Kinds(k, "lacks", "holds")) : k \in Kind}
        \union {Network("nil", Kinds("lacks", k, "corrupts")) : k \in {"holds", "lacks", "silent"}}
        \union {[Network("up", Kinds("corrupts", "holds", "lacks")) EXCEPT !.portless = {p2},
                                                                          !.fixed = {}],
                Nobody}

NoRequest == [used |-> FALSE, head |-> FALSE, header |-> Header("none", 0, 0)]
Plain == [NoRequest EXCEPT !.used = TRUE]
NoCall == [used |-> FALSE, key |-> 1, http |-> FALSE, enabled |-> TRUE, save |-> FALSE]
Call == [NoCall EXCEPT !.used = TRUE]

Managed == [managed |-> TRUE, persisted |-> TRUE, status |-> "running", saving |-> FALSE,
            file |-> "none"]
Absent == [Managed EXCEPT !.managed = FALSE, !.persisted = FALSE, !.status = "stopped"]

Base == [world |-> Nobody, cache |-> AllBlobs, stream |-> FullStream, row |-> Managed,
         requests |-> [r \in MCRequest |-> NoRequest], ops |-> [o \in MCOp |-> "none"],
         gets |-> [g \in MCGet |-> NoCall]]

Played == [Base EXCEPT !.requests[r1] = Plain]
PlayedTwice == [Played EXCEPT !.requests[r2] = Plain, !.row.status = "stopped"]

\* One request of every header for every stream.
RangeCases ==
    {[Played EXCEPT !.requests[r1].header = h, !.stream = s] : h \in Headers, s \in Streams}
        \union {[Played EXCEPT !.requests[r1].head = TRUE], [Played EXCEPT !.row = Absent]}

\* A request that needs a content blob or the descriptor from the network.
FetchCases ==
    {[Played EXCEPT !.world = w, !.cache = AllBlobs \ {0}] : w \in Networks}
        \union {[Played EXCEPT !.world = Network("up", Kinds("holds", "lacks", "holds")),
                               !.cache = AllBlobs \ {2}]}

\* Requests and operations.
ControlCases ==
    {[PlayedTwice EXCEPT !.ops[o1] = k] : k \in {"start", "save", "delete"}}
        \union {[Played EXCEPT !.ops[o1] = "stop", !.ops[o2] = k] : k \in {"start", "save", "delete"}}
        \union {[Played EXCEPT !.ops[o1] = "delete", !.ops[o2] = k] : k \in {"start", "delete"}}
        \union {[Played EXCEPT !.ops[o1] = "clean", !.ops[o2] = k, !.row.file = f] :
                    k \in {"none", "save"}, f \in {"none", "saved"}}

\* Gets: two callers of a priced stream that is not there, a get against a
\* deletion and a request.
GetCases ==
    {[Base EXCEPT !.row = Absent, !.cache = c, !.stream.priced = TRUE, !.world = w,
                  !.gets[g1] = [Call EXCEPT !.http = TRUE], !.gets[g2] = Call] :
         c \in {{}, {0}}, w \in {[Nobody EXCEPT !.fixed = {Report(TRUE, {p3})}, !.kind[p3] = "holds"]}}
        \union {[Played EXCEPT !.ops[o1] = "delete", !.gets[g1] = [Call EXCEPT !.save = save]] :
                    save \in BOOLEAN}
        \union {[Base EXCEPT !.gets[g1] = [Call EXCEPT !.http = TRUE, !.enabled = FALSE]]}

MCScenarios == RangeCases \union FetchCases \union ControlCases \union GetCases
=============================================================================
