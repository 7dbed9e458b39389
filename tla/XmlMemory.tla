------------------------------ MODULE XmlMemory ------------------------------
(***************************************************************************)
(* The memory of pugixml's documents: xml_allocator cuts nodes and strings *)
(* off pages, counts what is freed in each and gives back a page when all  *)
(* of it is; xml_document owns the list of its pages, from the sentinel    *)
(* page embedded in the document to the page allocated from.               *)
(*                                                                         *)
(* Sizes are in blocks of the alignment.  Pages are names: a document's    *)
(* own name is that of its sentinel.  An allocation that fails changes     *)
(* nothing and is left out.                                                *)
(***************************************************************************)
EXTENDS Integers, Sequences, FiniteSets, Functions

CONSTANTS
  Doc,          \* documents
  Page,         \* pages of the heap
  NoPage,       \* the null page
  PageSize,     \* xml_memory_page_size
  NodeSize,     \* sizeof(xml_node_struct)
  StringSize,   \* sizes of strings, header and rounding included
  MaxEncoded,   \* max_encoded_offset
  MaxLive,      \* bound on the objects alive
  MoveEmpty     \* callers also move from documents that never had a node

ASSUME MemoryAssumption ==
  /\ Doc \cap Page = {} /\ NoPage \notin Doc \cup Page
  /\ PageSize \in Nat /\ MaxEncoded \in Nat /\ PageSize < MaxEncoded
  /\ NodeSize \in 1..(PageSize \div 4)
  /\ StringSize \subseteq Nat \ {0}
  /\ MoveEmpty \in BOOLEAN

VARIABLES
  page,     \* the live pages: allocator, prev, next, busy_size, freed_size
  root,     \* root[d]: the page _root of d's allocator
  busy,     \* busy[d]: its _busy_size
  live,     \* the objects alive, nodes and strings: page, offset, size
  ownerOf,  \* the place of what an object belongs to, a document or a node
  ok        \* no assertion has failed

memoryVars == <<page, root, busy, live, ownerOf, ok>>
mem == [page |-> page, root |-> root, busy |-> busy, ok |-> ok]

Threshold == PageSize \div 4

Place(o) == <<o.page, o.offset>>
Top(d) == <<d, 0>>
Nodes == {o \in live : o.node}

\* The used size of a page; that of the page allocated from is in the
\* allocator.
Used(m, p) ==
  LET a == m.page[p].allocator IN IF m.root[a] = p THEN m.busy[a] ELSE m.page[p].busy

\* The pages from the sentinel of d on: what every set has in common that
\* has the sentinel and with a page the next.
Pages(pages, d) ==
  LET closed == {S \in SUBSET DOMAIN pages :
                   d \in S /\ \A q \in S : pages[q].next \in S \cup {NoPage}}
  IN  {p \in DOMAIN pages : \A S \in closed : p \in S}

\* What is below a place: likewise, with an object all that belongs to it.
Below(objects, owner, place) ==
  LET closed == {S \in SUBSET objects :
                   \A q \in objects : owner[q] = place \/ (\E r \in S : owner[q] = Place(r)) => q \in S}
  IN  {o \in objects : \A S \in closed : o \in S}

Children(n) == {o \in live : ownerOf[o] = Place(n)}
-----------------------------------------------------------------------------
\* _create(): the sentinel has no room, so that the first node gets a page.
Sentinel(d) ==
  [allocator |-> d, prev |-> NoPage, next |-> NoPage, busy |-> PageSize, freed |-> 0]

NewPage(a) == [allocator |-> a, prev |-> NoPage, next |-> NoPage, busy |-> 0, freed |-> 0]

FreePages(m) == Page \ DOMAIN m.page

\* allocate_memory_oob(), a page for small objects: it becomes the root.
AllocateSmallPage(m, a, size) ==
  LET p == CHOOSE p \in FreePages(m) : TRUE
      r == m.root[a]
  IN  [m EXCEPT !.page = [q \in DOMAIN @ \cup {p} |->
                            CASE q = p -> [NewPage(@[r].allocator) EXCEPT !.prev = r]
                              [] q = r -> [@[r] EXCEPT !.busy = m.busy[a], !.next = p]
                              [] OTHER -> @[q]],
                !.root = [@ EXCEPT ![a] = p],
                !.busy = [@ EXCEPT ![a] = size]]

\* allocate_memory_oob(), a page for one large object, put before the root.
AllocateLargePage(m, a, size) ==
  LET p == CHOOSE p \in FreePages(m) : TRUE
      r == m.root[a]
      before == m.page[r].prev
  IN  IF before = NoPage THEN [m EXCEPT !.ok = FALSE]
      ELSE [m EXCEPT !.page = [q \in DOMAIN @ \cup {p} |->
              CASE q = p -> [NewPage(@[r].allocator) EXCEPT !.prev = before, !.next = r, !.busy = size]
                [] q = r -> [@[r] EXCEPT !.prev = p]
                [] q = before -> [@[before] EXCEPT !.next = p]
                [] OTHER -> @[q]]]

\* The page a large object went to.
LargePage(m, a) == m.page[m.root[a]].prev

\* What the header of a string can say: its size, or that it has a page.
Encodable(m, o) == o.size < MaxEncoded \/ (m.page[o.page].busy = o.size /\ o.offset = 0)

\* Mutant of Fits: the last object may end past the page.
FitsStart(a, size) == busy[a] < PageSize

Fits(a, size) == busy[a] + size <= PageSize

\* The pages and the allocators become those of m.
Becomes(m) == page' = m.page /\ root' = m.root /\ busy' = m.busy /\ ok' = m.ok

\* allocate_memory(size) of allocator a, for an object of owner.
Allocate(a, size, owner, isNode) ==
  LET fits == Fits(a, size)
      small == size <= Threshold
      m == IF fits THEN [mem EXCEPT !.busy[a] = @ + size]
           ELSE IF small THEN AllocateSmallPage(mem, a, size)
           ELSE AllocateLargePage(mem, a, size)
      o == [page |-> IF fits \/ small THEN m.root[a] ELSE LargePage(m, a),
            offset |-> IF fits THEN busy[a] ELSE 0, size |-> size, node |-> isNode]
  IN  /\ fits \/ FreePages(mem) # {}
      /\ page' = m.page /\ root' = m.root /\ busy' = m.busy
      /\ ok' = (m.ok /\ (isNode \/ Encodable(m, o)))
      /\ live' = IF m.ok THEN live \cup {o} ELSE live
      /\ ownerOf' = [q \in live' |-> IF q \in live THEN ownerOf[q] ELSE owner]

\* The pages when p is taken out of its list and deallocated.
GivenBack(m, p) ==
  [q \in DOMAIN m.page \ {p} |->
     CASE q = m.page[p].prev -> [m.page[q] EXCEPT !.next = m.page[p].next]
       [] q = m.page[p].next -> [m.page[q] EXCEPT !.prev = m.page[p].prev]
       [] OTHER -> m.page[q]]

\* A page with its used size brought up to date.
Synced(m, a, p) == IF p = m.root[a] THEN [m.page[p] EXCEPT !.busy = m.busy[a]] ELSE m.page[p]

\* deallocate_memory() of allocator a for size blocks of object o.
Deallocate(m, a, o, size) ==
  LET p == o.page
      synced == Synced(m, a, p)
      freed == synced.freed + size
      sound == m.ok /\ o.offset < synced.busy /\ freed <= synced.busy
  IN  IF freed # synced.busy
        THEN [m EXCEPT !.page = [@ EXCEPT ![p] = [synced EXCEPT !.freed = freed]], !.ok = sound]
      ELSE IF synced.next = NoPage
        THEN [m EXCEPT !.page = [@ EXCEPT ![p] = [synced EXCEPT !.busy = 0, !.freed = 0]],
                       !.busy = [@ EXCEPT ![a] = 0],
                       !.ok = sound /\ m.root[a] = p]
        ELSE [m EXCEPT !.page = GivenBack(m, p),
                       !.ok = sound /\ m.root[a] # p /\ synced.prev # NoPage]

\* deallocate_string(): a full_size of 0 stands for the whole page.
StringSizeOf(m, o) == IF o.size < MaxEncoded THEN o.size ELSE m.page[o.page].busy

FreedSize(m, o) == IF o.node THEN NodeSize ELSE StringSizeOf(m, o)

Doomed(n) == {n} \cup Below(live, ownerOf, Place(n))

\* The orders in which destroy_node() may free what it destroys: the strings
\* of a node, its children one after the other, then the node.
DestroyOrders(n) ==
  LET all == Doomed(n)
      within == UNION {{<<o, k>> : o \in Doomed(k)} : k \in all}
  IN  {s \in [1..Cardinality(all) -> all] :
         /\ \A o \in all : \E i \in DOMAIN s : s[i] = o
         /\ \A i, k \in DOMAIN s : s[i] = s[k] => i = k
         /\ \A i, k \in DOMAIN s :
              <<s[i], s[k]>> \in within => i <= k /\ \A j \in i..k : <<s[j], s[k]>> \in within
         /\ \A i, k \in DOMAIN s : ownerOf[s[i]] = ownerOf[s[k]] /\ ~s[i].node /\ s[k].node => i < k}

DestroyNode(m, a, order) ==
  LET after[i \in 0..Len(order)] ==
        IF i = 0 THEN m ELSE Deallocate(after[i - 1], a, order[i], FreedSize(after[i - 1], order[i]))
  IN  after[Len(order)]

\* get_allocator(): that of the page the object is in.
AllocatorOf(owner) == page[owner[1]].allocator
-----------------------------------------------------------------------------
MemoryInit ==
  /\ page = [d \in Doc |-> Sentinel(d)]
  /\ root = [d \in Doc |-> d]
  /\ busy = [d \in Doc |-> PageSize]
  /\ live = {} /\ ownerOf = <<>>
  /\ ok = TRUE

\* append_new_node() below a document or a node.
AppendNode(owner) ==
  /\ Cardinality(live) < MaxLive
  /\ Allocate(AllocatorOf(owner), NodeSize, owner, TRUE)

\* allocate_string() for a name of node n.
AddString(n, size) ==
  /\ Cardinality(live) < MaxLive
  /\ \A o \in Children(n) : o.node
  /\ Allocate(AllocatorOf(Place(n)), size, Place(n), FALSE)

Remaining(objects) == live' = objects /\ ownerOf' = [o \in objects |-> ownerOf[o]]

\* remove_child(): destroy_node() with the allocator of the parent.
RemoveNode(n) ==
  /\ Remaining(live \ Doomed(n))
  /\ \E order \in DestroyOrders(n) :
       Becomes(DestroyNode(mem, AllocatorOf(ownerOf[n]), order))

\* _destroy() and _create(): every page but the sentinel goes.
Recreated(m, d) ==
  LET gone == Pages(m.page, d) \ {d}
  IN  [m EXCEPT !.page = [q \in DOMAIN @ \ gone |-> IF q = d THEN Sentinel(d) ELSE @[q]],
                !.root[d] = d,
                !.busy[d] = PageSize]

Belonging(d) == Below(live, ownerOf, Top(d))

Recreate(d) ==
  /\ Becomes(Recreated(mem, d))
  /\ Remaining(live \ Belonging(d))

\* _move(): document d, just created, takes the pages and the allocation
\* state of e.
Moved(m, d, e) ==
  LET first == m.page[e].next
      pages == Pages(m.page, e) \ {e}
      Relinked(q) == [m.page[q] EXCEPT !.allocator = IF q \in pages THEN d ELSE @,
                                       !.prev = IF q = first THEN d ELSE @,
                                       !.next = IF q = d THEN first ELSE IF q = e THEN NoPage ELSE @]
  IN  [m EXCEPT !.page = [q \in DOMAIN @ |-> Relinked(q)],
                !.root = [@ EXCEPT ![d] = m.root[e], ![e] = e],
                !.busy = [@ EXCEPT ![d] = m.busy[e], ![e] = m.page[e].busy],
                !.ok = @ /\ \A q \in pages : m.page[q].allocator = e]

\* The move assignment d = std::move(e).
MoveMemory(d, e) ==
  /\ d # e
  /\ MoveEmpty \/ root[e] # e
  /\ Becomes(Moved(Recreated(mem, d), d, e))
  /\ live' = live \ Belonging(d)
  /\ ownerOf' = [o \in live' |-> IF ownerOf[o] = Top(e) THEN Top(d) ELSE ownerOf[o]]

MemoryNext ==
  /\ ok
  /\ \/ \E owner \in {Top(d) : d \in Doc} \cup {Place(n) : n \in Nodes} : AppendNode(owner)
     \/ \E n \in Nodes, size \in StringSize : AddString(n, size)
     \/ \E n \in Nodes : RemoveNode(n)
     \/ \E d \in Doc : Recreate(d) \/ \E e \in Doc : MoveMemory(d, e)

MemorySpec == MemoryInit /\ [][MemoryNext]_memoryVars
-----------------------------------------------------------------------------
Holds(o) == o.offset..(o.offset + o.size - 1)

LyingIn(objects, p) == {o \in objects : o.page = p}
BlocksIn(objects, p) == SumFunction([o \in LyingIn(objects, p) |-> o.size])

MemoryTypeOK ==
  /\ Doc \subseteq DOMAIN page /\ DOMAIN page \subseteq Doc \cup Page
  /\ \A p \in DOMAIN page :
       /\ page[p].allocator \in Doc
       /\ {page[p].prev, page[p].next} \subseteq DOMAIN page \cup {NoPage}
  /\ root \in [Doc -> DOMAIN page]
  /\ busy \in [Doc -> 0..PageSize]
  /\ DOMAIN ownerOf = live

\* A node or a string that is alive is in a page that is, within the part
\* of it handed out, and shares no block with another: no page is given
\* back too early, none is reused too early.
LiveMemorySound ==
  /\ \A o \in live :
       /\ o.page \in DOMAIN page
       /\ o.offset + o.size <= Used(mem, o.page)
       /\ o.offset = 0 \/ o.offset + o.size <= PageSize
  /\ \A o, p \in live : o.page = p.page /\ o # p => Holds(o) \cap Holds(p) = {}

\* The blocks of a page are handed out or freed, none is lost: when the
\* last object in it goes, so does the page.
FreedIsCounted ==
  \A p \in DOMAIN page \ Doc : page[p].freed + BlocksIn(live, p) = Used(mem, p)

\* The pages of a document are a list from its sentinel to its root, with
\* the document for their allocator; no page is in two lists or in none,
\* and only the root may be empty.
PagesListed ==
  /\ \A d \in Doc : Pages(page, d) = {p \in DOMAIN page : page[p].allocator = d}
  /\ \A p \in DOMAIN page :
       /\ page[p].prev = NoPage <=> p \in Doc
       /\ page[p].next = NoPage <=> p = root[page[p].allocator]
       /\ \A q \in DOMAIN page : page[p].next = q <=> page[q].prev = p
       /\ p \notin Doc /\ page[p].next # NoPage => \E o \in live : o.page = p

\* An object lies in a page of the document that what it belongs to is of.
OwnersInReach ==
  \A o \in live :
    /\ ownerOf[o] \in {Top(d) : d \in Doc} \cup {Place(n) : n \in Nodes}
    /\ page[o.page].allocator = AllocatorOf(ownerOf[o])

(***************************************************************************)
(* No object of a document lies in a page that was given back or over      *)
(* another, the counts of a page say when it is empty, only the page       *)
(* allocated from is kept empty, documents share no page, and no assertion *)
(* of the allocator or of _move() fails.                                   *)
(***************************************************************************)
PagesOutliveObjects ==
  MemoryTypeOK /\ LiveMemorySound /\ FreedIsCounted /\ PagesListed /\ OwnersInReach /\ ok
=============================================================================
