----------------------------- MODULE HeapProof ------------------------------
(***************************************************************************)
(* The heap of dynamic.c for any page size, any number of bins and pages,   *)
(* and wherever the multiples of 4096 lie: headers, boundary tags and bins  *)
(* agree, and the heap implements the allocator, up to the two branches     *)
(* that harm records.                                                       *)
(***************************************************************************)
EXTENDS DynamicHeap, RunQueueProof

USE HeapAssumption DEF Hdr, First, Room

Header == [pre : 0..PageSlots, size : 0..(Word - 1), used : 0..BinMax]

(***************************************************************************)
(* The chunks in terms of headers h: where a chunk ends, and the chunks     *)
(* that a header leads to.  Chunks do not overlap, every chunk ends at a    *)
(* header or at the end of its page, and pre_size leads back to a chunk     *)
(* that leads here.                                                         *)
(***************************************************************************)
End(h, a) == a[2] + h[a].size + Hdr
Nxt(h, a) == <<a[1], End(h, a)>>
Prv(h, a) == <<a[1], a[2] - h[a].pre - Hdr>>

Headers(h) == DOMAIN h \subseteq Addr /\ \A a \in DOMAIN h : h[a] \in Header
Apart(h)   == \A a, b \in DOMAIN h : a[1] = b[1] /\ a[2] < b[2] => End(h, a) <= b[2]
Chained(h) == \A a \in DOMAIN h :
                /\ <<a[1], 0>> \in DOMAIN h
                /\ End(h, a) <= PageSlots - 1
                /\ End(h, a) = PageSlots - 1 \/ Nxt(h, a) \in DOMAIN h
Tagged(h)  == \A a \in DOMAIN h :
                /\ h[a].pre = First <=> a[2] = 0
                /\ a[2] # 0 => Prv(h, a) \in DOMAIN h /\ h[Prv(h, a)].size = h[a].pre
Geometry(h) == Headers(h) /\ Apart(h) /\ Chained(h) /\ Tagged(h)

(* The bins l for headers h and a top chunk t.                              *)
Belongs(h, t, a, k) ==
  a \in DOMAIN h /\ h[a].used = 0 /\ a # t /\ h[a].size > 0 /\ k = Home(h[a].size)
Listed(h, t, l) ==
  /\ l \in [0..BinMax -> Seq(Addr)]
  /\ \A k \in 0..BinMax : /\ NoDuplicates(l[k])
                          /\ \A a \in Addr : Contains(l[k], a) <=> Belongs(h, t, a, k)

(* A chunk in use was asked for with the size that it has.                  *)
Exact(h)    == \A a \in DOMAIN h : h[a].used \in {0, h[a].size}
TopOK(h, t) == t \in DOMAIN h /\ h[t].used = 0 /\ End(h, t) = PageSlots - 1

Sound(h, t, l) == Geometry(h) /\ Exact(h) /\ TopOK(h, t) /\ Listed(h, t, l)

IInv == TypeOK /\ (harm = "none" => Sound(chunk, top, list))

(* What a call does for its caller: it gives n slots at a that nobody else  *)
(* has, or takes back what is at a.                                         *)
Gives(n, a) ==
  /\ a \in Addr \ Used /\ Used' = Used \cup {a}
  /\ chunk'[a].used = n /\ \A c \in Used : chunk'[c].used = chunk[c].used
  /\ a[2] + n + 2 <= PageSlots - 1
  /\ \A c \in Used : c[1] = a[1] => End(chunk, c) <= a[2] \/ a[2] + n + 2 <= c[2]
TakesBack(a) == /\ a \in Used /\ Used' = Used \ {a}
                /\ \A c \in Used \ {a} : chunk'[c].used = chunk[c].used
-----------------------------------------------------------------------------
(* What a header and its address can be.                                    *)
LEMMA Bounds ==
  ASSUME NEW h, Headers(h), NEW a \in DOMAIN h
  PROVE  /\ a \in Addr /\ a[1] \in Pages /\ a[2] \in Nat /\ a[2] <= PageSlots - 1
         /\ a = <<a[1], a[2]>>
         /\ h[a] \in Header /\ h[a].size \in Nat /\ h[a].pre \in Nat /\ h[a].pre <= PageSlots
         /\ h[a].used \in 0..BinMax
         /\ End(h, a) \in Nat /\ End(h, a) = a[2] + h[a].size + 2
BY DEF Headers, Header, Addr, Offsets, End

LEMMA SameAddress ==
  ASSUME NEW a \in Addr, NEW b \in Addr, a[1] = b[1], a[2] = b[2]
  PROVE  a = b
BY DEF Addr

(* Two chunks of a page that end at the same slot are the same.             *)
LEMMA SameEnd ==
  ASSUME NEW h, Headers(h), Apart(h), NEW a \in DOMAIN h, NEW b \in DOMAIN h,
         a[1] = b[1], End(h, a) = End(h, b)
  PROVE  a = b
<1>1. /\ a[2] \in Nat /\ b[2] \in Nat /\ End(h, a) \in Nat /\ End(h, b) \in Nat
      /\ End(h, a) > a[2] /\ End(h, b) > b[2] /\ a \in Addr /\ b \in Addr
  BY Bounds
<1>2. ~(a[2] < b[2]) /\ ~(b[2] < a[2])
  <2>1. a[2] < b[2] => End(h, a) <= b[2]  BY DEF Apart
  <2>2. b[2] < a[2] => End(h, b) <= a[2]  BY DEF Apart
  <2> QED  BY <1>1, <2>1, <2>2
<1>3. a[2] = b[2]  BY <1>1, <1>2
<1> QED  BY <1>1, <1>3, SameAddress

(* The header behind a chunk carries its size.                              *)
LEMMA TagOfNext ==
  ASSUME NEW h, Geometry(h), NEW a \in DOMAIN h, Nxt(h, a) \in DOMAIN h
  PROVE  h[Nxt(h, a)].pre = h[a].size /\ h[a].size # 0 /\ Prv(h, Nxt(h, a)) = a
<1> DEFINE b == Nxt(h, a)
<1>1. Headers(h) /\ Apart(h) /\ Chained(h) /\ Tagged(h)  BY DEF Geometry
<1>2. b[1] = a[1] /\ b[2] = End(h, a) /\ b[2] # 0  BY <1>1, Bounds DEF Nxt
<1> DEFINE c == Prv(h, b)
<1>3. c \in DOMAIN h /\ h[c].size = h[b].pre /\ h[b].pre # 0
  BY <1>1, <1>2 DEF Tagged
<1>4. c[1] = a[1] /\ c[2] = b[2] - h[b].pre - 2  BY <1>2 DEF Prv
<1>5. h[b].pre \in Nat /\ h[c].size \in Nat /\ c[2] \in Nat /\ End(h, c) = c[2] + h[c].size + 2
      /\ b[2] \in Nat
  BY <1>1, <1>3, Bounds
<1>6. End(h, c) = End(h, a)  BY <1>2, <1>3, <1>4, <1>5
<1>7. c = a  BY <1>1, <1>3, <1>4, <1>6, SameEnd
<1> QED  BY <1>3, <1>7

(* Behind the chunk that ends its page there is none.                       *)
LEMMA LastInPage ==
  ASSUME NEW h, Headers(h), Apart(h), Chained(h), NEW a \in DOMAIN h,
         End(h, a) = PageSlots - 1, NEW b \in DOMAIN h, a[1] = b[1]
  PROVE  b[2] <= a[2]
<1>1. a[2] \in Nat /\ b[2] \in Nat /\ End(h, b) \in Nat /\ End(h, b) > b[2]  BY Bounds
<1>2. End(h, b) <= PageSlots - 1  BY DEF Chained
<1>3. a[2] < b[2] => End(h, a) <= b[2]  BY DEF Apart
<1> QED  BY <1>1, <1>2, <1>3

(* Marking a chunk used or free leaves the geometry alone.                  *)
LEMMA GeometryKept ==
  ASSUME NEW h, Geometry(h), NEW g, DOMAIN g = DOMAIN h,
         \A c \in DOMAIN h : g[c] \in Header /\ g[c].size = h[c].size /\ g[c].pre = h[c].pre
  PROVE  Geometry(g) /\ \A c \in DOMAIN h : End(g, c) = End(h, c)
<1>1. \A c \in DOMAIN h : End(g, c) = End(h, c) /\ Nxt(g, c) = Nxt(h, c) /\ Prv(g, c) = Prv(h, c)
  BY DEF End, Nxt, Prv
<1>2. Headers(g)  BY DEF Geometry, Headers
<1>3. Apart(g) /\ Chained(g)  BY <1>1 DEF Geometry, Apart, Chained
<1>4. Tagged(g)  BY <1>1 DEF Geometry, Tagged
<1> QED  BY <1>1, <1>2, <1>3, <1>4 DEF Geometry

(* A new page holds one chunk.                                              *)
LEMMA PageAdded ==
  ASSUME NEW h, Geometry(h), NEW p \in Pages, <<p, 0>> \notin DOMAIN h,
         NEW g, DOMAIN g = DOMAIN h \cup {<<p, 0>>}, g[<<p, 0>>] = Free(0, PageSlots - 3),
         \A c \in DOMAIN h : g[c] = h[c]
  PROVE  Geometry(g) /\ End(g, <<p, 0>>) = PageSlots - 1
<1> DEFINE a == <<p, 0>>
<1>1. a[1] = p /\ a[2] = 0 /\ a \in Addr  BY DEF Addr, Offsets
<1>2. /\ g[a].pre = 0 /\ g[a].size = PageSlots - 3 /\ g[a] \in Header
      /\ End(g, a) = PageSlots - 1
  BY <1>1 DEF Free, Header, End
<1>3. Headers(h) /\ Apart(h) /\ Chained(h) /\ Tagged(h)  BY DEF Geometry
<1>4. \A c \in DOMAIN h : c[1] # p /\ c # a /\ <<c[1], 0>> \in DOMAIN h
  BY <1>3 DEF Chained
<1>5. \A c \in DOMAIN h : End(g, c) = End(h, c) /\ Nxt(g, c) = Nxt(h, c) /\ Prv(g, c) = Prv(h, c)
  BY DEF End, Nxt, Prv
<1> HIDE DEF a
<1>6. DOMAIN g = DOMAIN h \cup {a} /\ \A c \in DOMAIN h : g[c] = h[c]  BY DEF a
<1>7. Headers(g)  BY <1>1, <1>2, <1>3, <1>6 DEF Headers
<1>8. Apart(g)
  <2> SUFFICES ASSUME NEW c \in DOMAIN g, NEW d \in DOMAIN g, c[1] = d[1], c[2] < d[2]
               PROVE  End(g, c) <= d[2]
    BY DEF Apart
  <2>1. c[2] \in Nat /\ c # d  BY <1>7, Bounds
  <2>2. c \in DOMAIN h /\ d \in DOMAIN h  BY <2>1, <1>1, <1>4, <1>6
  <2> QED  BY <2>2, <1>3, <1>5 DEF Apart
<1>9. Chained(g)
  <2>1. <<a[1], 0>> = a  BY <1>1 DEF a
  <2>2. ASSUME NEW c \in DOMAIN h
        PROVE  /\ <<c[1], 0>> \in DOMAIN g /\ End(g, c) <= PageSlots - 1
               /\ End(g, c) = PageSlots - 1 \/ Nxt(g, c) \in DOMAIN g
    BY <1>3, <1>4, <1>5, <1>6 DEF Chained
  <2>3. <<a[1], 0>> \in DOMAIN g /\ End(g, a) <= PageSlots - 1 /\ End(g, a) = PageSlots - 1
    BY <2>1, <1>2, <1>6 DEF a
  <2>4. ASSUME NEW c \in DOMAIN g PROVE c = a \/ c \in DOMAIN h  BY <1>6
  <2> QED  BY <2>2, <2>3, <2>4 DEF Chained
<1>10. Tagged(g)
  <2>1. ASSUME NEW c \in DOMAIN h
        PROVE  /\ g[c].pre = 0 <=> c[2] = 0
               /\ c[2] # 0 => Prv(g, c) \in DOMAIN g /\ g[Prv(g, c)].size = g[c].pre
    BY <1>3, <1>5, <1>6 DEF Tagged
  <2> QED  BY <2>1, <1>1, <1>2, <1>6 DEF Tagged
<1> QED  BY <1>2, <1>7, <1>8, <1>9, <1>10 DEF Geometry, a

(* A chunk a at the end of its page is cut in two, the upper part being b.  *)
CutInto(h, a, n, b, g) ==
  /\ a \in DOMAIN h /\ End(h, a) = PageSlots - 1 /\ n \in 1..BinMax /\ h[a].size >= n + 2
  /\ b \in Addr /\ b[1] = a[1] /\ b[2] = a[2] + n + 2
  /\ DOMAIN g = DOMAIN h \cup {b} /\ \A c \in DOMAIN h \ {a} : g[c] = h[c]
  /\ g[a] = [pre |-> h[a].pre, size |-> n, used |-> n]
  /\ g[b] = Free(n, h[a].size - n - 2)

LEMMA LastCut ==
  ASSUME NEW h, Geometry(h), NEW a, NEW n, NEW b, NEW g, CutInto(h, a, n, b, g)
  PROVE  Geometry(g) /\ End(g, b) = PageSlots - 1
<1> USE DEF CutInto
<1>1. Headers(h) /\ Apart(h) /\ Chained(h) /\ Tagged(h)  BY DEF Geometry
<1>2. n \in Nat /\ n > 0 /\ n <= BinMax  OBVIOUS
<1>3. /\ a \in Addr /\ a[1] \in Pages /\ a[2] \in Nat /\ h[a] \in Header
      /\ h[a].size \in Nat /\ a[2] + h[a].size + 2 = PageSlots - 1
  BY <1>1, Bounds
<1>4. /\ b[1] = a[1] /\ b[2] = a[2] + n + 2 /\ b[2] \in Nat /\ b[2] > a[2]
      /\ b[2] <= PageSlots - 1 /\ b[2] # 0
  BY <1>2, <1>3
<1>5. b \in Addr /\ b = <<b[1], b[2]>>  BY DEF Addr
<1>6. b \notin DOMAIN h /\ a # b  BY <1>1, <1>3, <1>4, LastInPage
<1>7. /\ g[a].size = n /\ g[a].pre = h[a].pre /\ g[a] \in Header
  <2>1. n \in 0..(Word - 1) /\ n \in 0..BinMax /\ h[a].pre \in 0..PageSlots
    BY <1>2, <1>3 DEF Header
  <2> QED  BY <2>1 DEF Header
<1>8. /\ g[b].pre = n /\ g[b].size = h[a].size - n - 2 /\ g[b] \in Header
  BY <1>2, <1>3 DEF Header, Free
<1>9. End(g, a) = b[2] /\ Nxt(g, a) = b /\ Prv(g, a) = Prv(h, a)
  BY <1>3, <1>4, <1>5, <1>7 DEF End, Nxt, Prv
<1>10. End(g, b) = PageSlots - 1 /\ Prv(g, b) = a
  <2>1. End(g, b) = PageSlots - 1  BY <1>2, <1>3, <1>4, <1>8 DEF End
  <2>2. Prv(g, b) = <<a[1], a[2]>>
    <3>1. b[2] - g[b].pre - 2 = a[2]  BY <1>2, <1>3, <1>4, <1>8
    <3> QED  BY <3>1, <1>4 DEF Prv
  <2> QED  BY <2>1, <2>2, <1>1, Bounds
<1>11. \A c \in DOMAIN h \ {a} :
         End(g, c) = End(h, c) /\ Nxt(g, c) = Nxt(h, c) /\ Prv(g, c) = Prv(h, c)
  BY DEF End, Nxt, Prv
<1>12. Headers(g)  BY <1>1, <1>5, <1>7, <1>8 DEF Headers
<1>13. Apart(g)
  <2> SUFFICES ASSUME NEW c \in DOMAIN g, NEW d \in DOMAIN g, c[1] = d[1], c[2] < d[2]
               PROVE  End(g, c) <= d[2]
    BY DEF Apart
  <2>1. c[2] \in Nat /\ d[2] \in Nat  BY <1>12, Bounds
  <2>2. \A e \in DOMAIN h : e[1] = a[1] => e[2] <= a[2]  BY <1>1, LastInPage
  <2>3. d[1] = a[1] => d \in {a, b} \/ d[2] < a[2]
    BY <2>1, <2>2, <1>1, <1>3, SameAddress DEF Headers
  <2>4. CASE c = b  BY <2>1, <2>3, <2>4, <1>3, <1>4
  <2>5. CASE c = a  BY <2>1, <2>3, <2>5, <1>3, <1>4, <1>9
  <2>6. CASE c \in DOMAIN h \ {a} /\ d \in DOMAIN h  BY <2>6, <1>1, <1>11 DEF Apart
  <2>7. CASE c \in DOMAIN h \ {a} /\ d = b
    <3>1. c[2] < a[2]  BY <2>1, <2>2, <2>7, <1>1, <1>3, <1>4, SameAddress DEF Headers
    <3>2. End(h, c) <= a[2]  BY <3>1, <2>7, <1>1, <1>4 DEF Apart
    <3>3. End(h, c) \in Nat  BY <2>7, <1>1, Bounds
    <3> QED  BY <3>2, <3>3, <2>7, <1>3, <1>4, <1>11
  <2> QED  BY <2>4, <2>5, <2>6, <2>7
<1>14. Chained(g)
  <2> SUFFICES ASSUME NEW c \in DOMAIN g
               PROVE  /\ <<c[1], 0>> \in DOMAIN g /\ End(g, c) <= PageSlots - 1
                      /\ End(g, c) = PageSlots - 1 \/ Nxt(g, c) \in DOMAIN g
    BY DEF Chained
  <2>1. CASE c = b  BY <2>1, <1>1, <1>4, <1>10 DEF Chained
  <2>2. CASE c = a  BY <2>2, <1>1, <1>4, <1>9 DEF Chained
  <2>3. CASE c \in DOMAIN h \ {a}  BY <2>3, <1>1, <1>11 DEF Chained
  <2> QED  BY <2>1, <2>2, <2>3
<1>15. Tagged(g)
  <2> SUFFICES ASSUME NEW c \in DOMAIN g
               PROVE  /\ g[c].pre = 0 <=> c[2] = 0
                      /\ c[2] # 0 => Prv(g, c) \in DOMAIN g /\ g[Prv(g, c)].size = g[c].pre
    BY DEF Tagged
  <2>1. CASE c = b
    <3>1. g[b].pre # 0 /\ b[2] # 0  BY <1>2, <1>4, <1>8
    <3>2. Prv(g, b) \in DOMAIN g /\ g[Prv(g, b)].size = g[b].pre  BY <1>7, <1>8, <1>10
    <3> QED  BY <2>1, <3>1, <3>2
  <2>2. CASE c \in DOMAIN h
    <3>1. g[c].pre = h[c].pre /\ Prv(g, c) = Prv(h, c)  BY <2>2, <1>7, <1>9, <1>11
    <3>2. h[c].pre = 0 <=> c[2] = 0  BY <2>2, <1>1 DEF Tagged
    <3>3. ASSUME c[2] # 0 PROVE Prv(h, c) \in DOMAIN h \ {a} /\ h[Prv(h, c)].size = h[c].pre
      <4>1. Prv(h, c) \in DOMAIN h /\ h[Prv(h, c)].size = h[c].pre
        BY <2>2, <3>3, <1>1 DEF Tagged
      <4>2. ASSUME Prv(h, c) = a PROVE FALSE
        <5>1. a[1] = c[1] /\ a[2] = c[2] - h[c].pre - 2  BY <4>2 DEF Prv
        <5>2. c[2] \in Nat /\ h[c].pre \in Nat  BY <2>2, <1>1, Bounds
        <5>3. c[2] <= a[2]  BY <2>2, <5>1, <1>1, LastInPage
        <5> QED  BY <5>1, <5>2, <5>3, <1>3
      <4> QED  BY <4>1, <4>2
    <3> QED  BY <3>1, <3>2, <3>3
  <2> QED  BY <2>1, <2>2
<1> QED  BY <1>10, <1>12, <1>13, <1>14, <1>15 DEF Geometry

(* A chunk a and the one before it, b, become one of size m.                *)
JoinedInto(h, a, b, m, g) ==
  /\ a \in DOMAIN h /\ a[2] # 0 /\ b = Prv(h, a) /\ m = h[a].size + h[b].size + 2
  /\ DOMAIN g = DOMAIN h \ {a} /\ g[b] = Free(h[b].pre, m)
  /\ \A c \in DOMAIN h \ {a, b} :
       IF c = Nxt(h, a) THEN g[c] = [h[c] EXCEPT !.pre = m] ELSE g[c] = h[c]

LEMMA TwoJoined ==
  ASSUME NEW h, Geometry(h), NEW a, NEW b, NEW m, NEW g, JoinedInto(h, a, b, m, g)
  PROVE  /\ Geometry(g) /\ b \in DOMAIN g /\ b # a
         /\ h[b].size = h[a].pre /\ h[b].size > 0 /\ m \in Nat /\ End(h, b) # PageSlots - 1
         /\ g[b].size = m /\ g[b].used = 0 /\ m > 0
         /\ \A c \in DOMAIN h \ {a, b} : /\ End(g, c) = End(h, c) /\ g[c].size = h[c].size
                                         /\ g[c].used = h[c].used
<1> USE DEF JoinedInto
<1>1. Headers(h) /\ Apart(h) /\ Chained(h) /\ Tagged(h)  BY DEF Geometry
<1>2. /\ a \in Addr /\ a[1] \in Pages /\ a[2] \in Nat /\ h[a] \in Header
      /\ h[a].size \in Nat /\ h[a].pre \in Nat
      /\ End(h, a) \in Nat /\ End(h, a) = a[2] + h[a].size + 2
  BY <1>1, Bounds
<1>3. b \in DOMAIN h /\ h[b].size = h[a].pre /\ h[a].pre # 0  BY <1>1 DEF Tagged
<1>4. b[1] = a[1] /\ b[2] = a[2] - h[a].pre - 2  BY DEF Prv
<1>5. /\ b \in Addr /\ b[2] \in Nat /\ h[b] \in Header /\ h[b].size \in Nat /\ h[b].pre \in Nat
      /\ End(h, b) \in Nat /\ End(h, b) = b[2] + h[b].size + 2
  BY <1>1, <1>3, Bounds
<1>6. End(h, b) = a[2] /\ b[2] < a[2] /\ a # b  BY <1>2, <1>3, <1>4, <1>5
<1>7. End(h, a) <= PageSlots - 1  BY <1>1 DEF Chained
<1>8. m \in Nat /\ m > 0 /\ m <= PageSlots - 1 /\ b[2] + m + 2 = End(h, a)
  BY <1>2, <1>3, <1>4, <1>5, <1>6, <1>7
<1>9. g[b].pre = h[b].pre /\ g[b].size = m /\ g[b].used = 0 /\ g[b] \in Header
  BY <1>5, <1>8 DEF Free, Header
<1>10. End(g, b) = End(h, a) /\ Nxt(g, b) = Nxt(h, a) /\ Prv(g, b) = Prv(h, b)
  BY <1>4, <1>8, <1>9 DEF End, Nxt, Prv
<1>11. ASSUME NEW c \in DOMAIN h \ {a, b}
       PROVE  /\ g[c] \in Header /\ g[c].size = h[c].size /\ g[c].used = h[c].used
              /\ g[c].pre = IF c = Nxt(h, a) THEN m ELSE h[c].pre
              /\ End(g, c) = End(h, c) /\ Nxt(g, c) = Nxt(h, c)
  <2>1. h[c] \in Header  BY <1>1 DEF Headers
  <2>2. CASE c = Nxt(h, a)
    <3>1. g[c] = [h[c] EXCEPT !.pre = m]  BY <2>2
    <3>2. g[c] \in Header /\ g[c].size = h[c].size /\ g[c].used = h[c].used /\ g[c].pre = m
      BY <2>1, <3>1, <1>8 DEF Header
    <3> QED  BY <2>2, <3>2 DEF End, Nxt
  <2>3. CASE c # Nxt(h, a)  BY <2>1, <2>3 DEF End, Nxt
  <2> QED  BY <2>2, <2>3
<1>12. DOMAIN g = (DOMAIN h \ {a, b}) \cup {b} /\ DOMAIN g \subseteq DOMAIN h /\ a \notin DOMAIN g
  BY <1>3, <1>6
<1>13. Headers(g)  BY <1>1, <1>9, <1>11, <1>12 DEF Headers
<1>14. Apart(g)
  <2> SUFFICES ASSUME NEW c \in DOMAIN g, NEW d \in DOMAIN g, c[1] = d[1], c[2] < d[2]
               PROVE  End(g, c) <= d[2]
    BY DEF Apart
  <2>1. CASE c = b
    <3>1. End(h, b) <= d[2] /\ d[2] \in Nat /\ d \in Addr
      BY <2>1, <1>1, <1>3, <1>12, Bounds DEF Apart
    <3>2. d[2] # a[2]  BY <2>1, <3>1, <1>2, <1>4, <1>12, SameAddress
    <3>3. a[2] < d[2]  BY <3>1, <3>2, <1>2, <1>6
    <3> QED  BY <2>1, <3>3, <1>1, <1>4, <1>10, <1>12 DEF Apart
  <2>2. CASE c # b  BY <2>2, <1>1, <1>11, <1>12 DEF Apart
  <2> QED  BY <2>1, <2>2
<1>15. Chained(g)
  <2> SUFFICES ASSUME NEW c \in DOMAIN g
               PROVE  /\ <<c[1], 0>> \in DOMAIN g /\ End(g, c) <= PageSlots - 1
                      /\ End(g, c) = PageSlots - 1 \/ Nxt(g, c) \in DOMAIN g
    BY DEF Chained
  <2>1. <<c[1], 0>> \in DOMAIN g  BY <1>1, <1>12 DEF Chained
  <2>2. CASE c = b
    <3>1. Nxt(h, a)[2] # a[2]  BY <1>2 DEF Nxt
    <3>2. Nxt(h, a) # a  BY <3>1
    <3> QED  BY <2>1, <2>2, <3>2, <1>1, <1>7, <1>10 DEF Chained
  <2>3. CASE c # b
    <3>1. /\ End(h, c) <= PageSlots - 1
          /\ End(h, c) = PageSlots - 1 \/ Nxt(h, c) \in DOMAIN h
      BY <1>1, <1>12 DEF Chained
    <3>2. ASSUME Nxt(h, c) = a PROVE FALSE
      <4>1. c[1] = b[1] /\ End(h, c) = End(h, b)  BY <3>2, <1>4, <1>6 DEF Nxt
      <4>2. c = b  BY <4>1, <1>1, <1>3, <1>12, SameEnd
      <4> QED  BY <4>2, <2>3
    <3> QED  BY <2>1, <2>3, <3>1, <3>2, <1>11, <1>12
  <2> QED  BY <2>2, <2>3
<1>16. Tagged(g)
  <2> SUFFICES ASSUME NEW c \in DOMAIN g
               PROVE  /\ g[c].pre = 0 <=> c[2] = 0
                      /\ c[2] # 0 => Prv(g, c) \in DOMAIN g /\ g[Prv(g, c)].size = g[c].pre
    BY DEF Tagged
  <2>1. c \in DOMAIN h /\ c \in Addr /\ c[2] \in Nat /\ h[c].pre \in Nat
    BY <1>1, <1>12, Bounds
  <2>2. h[c].pre = 0 <=> c[2] = 0  BY <2>1, <1>1 DEF Tagged
  <2>3. CASE c = Nxt(h, a)
    <3>1. c[1] = a[1] /\ c[2] = End(h, a) /\ c[2] > a[2]  BY <2>3, <1>2 DEF Nxt
    <3>2. c # b  BY <3>1, <1>2, <1>6
    <3>3. g[c].pre = m  BY <2>3, <3>2, <1>11, <1>12
    <3>4. Prv(g, c) = b
      <4>1. c[2] - m - 2 = b[2]  BY <3>1, <1>5, <1>8
      <4>2. Prv(g, c) = <<b[1], b[2]>>  BY <3>1, <3>3, <4>1, <1>4 DEF Prv
      <4> QED  BY <4>2, <1>1, <1>3, Bounds
    <3> QED  BY <3>1, <3>3, <3>4, <1>2, <1>3, <1>8, <1>9, <1>12
  <2>4. CASE c # Nxt(h, a)
    <3>1. g[c].pre = h[c].pre /\ Prv(g, c) = Prv(h, c)
      BY <2>4, <1>9, <1>10, <1>11, <1>12 DEF Prv
    <3>2. ASSUME c[2] # 0 PROVE Prv(h, c) \in DOMAIN h \ {a, b} /\ h[Prv(h, c)].size = h[c].pre
      <4> DEFINE d == Prv(h, c)
      <4>1. d \in DOMAIN h /\ h[d].size = h[c].pre  BY <2>1, <3>2, <1>1 DEF Tagged
      <4>2. d[1] = c[1] /\ d[2] = c[2] - h[c].pre - 2  BY DEF Prv
      <4> HIDE DEF d
      <4>3. End(h, d) = c[2] /\ c = <<c[1], c[2]>>
        BY <4>1, <4>2, <2>1, <1>1, Bounds
      <4>4. Nxt(h, d) = c  BY <4>2, <4>3 DEF Nxt
      <4>5. d # a  BY <4>4, <2>4
      <4>6. ASSUME d = b PROVE FALSE
        <5>1. c[1] = a[1] /\ c[2] = a[2]  BY <4>2, <4>3, <4>6, <1>4, <1>6
        <5>2. c = a  BY <5>1, <2>1, <1>2, SameAddress
        <5> QED  BY <5>2, <1>12
      <4> QED  BY <4>1, <4>5, <4>6 DEF d
    <3> QED  BY <2>2, <3>1, <3>2, <1>11, <1>12
  <2> QED  BY <2>3, <2>4
<1>17. End(h, b) # PageSlots - 1  BY <1>2, <1>6, <1>7
<1> QED  BY <1>3, <1>5, <1>6, <1>8, <1>9, <1>11, <1>12, <1>13, <1>14, <1>15, <1>16, <1>17 DEF Geometry
-----------------------------------------------------------------------------
(* The bins: what is on which after a push, a removal and a pop.            *)
Bins(l) == l \in [0..BinMax -> Seq(Addr)] /\ \A k \in 0..BinMax : NoDuplicates(l[k])

LEMMA PushedBin ==
  ASSUME NEW l, Bins(l), NEW k \in 0..BinMax, NEW a \in Addr, ~Contains(l[k], a)
  PROVE  /\ Bins(Pushed(l, k, a))
         /\ \A j \in 0..BinMax : \A c :
              Contains(Pushed(l, k, a)[j], c) <=> Contains(l[j], c) \/ (j = k /\ c = a)
<1> DEFINE q == l[k]
<1>1. q \in Seq(Addr) /\ NoDuplicates(q)  BY DEF Bins
<1>2. /\ <<a>> \o q \in Seq(Addr) /\ NoDuplicates(<<a>> \o q)
      /\ \A c : Contains(<<a>> \o q, c) <=> Contains(q, c) \/ c = a
  <2> HIDE DEF q
  <2> QED  BY <1>1, ConsContains DEF q
<1>3. /\ Pushed(l, k, a)[k] = <<a>> \o q
      /\ DOMAIN Pushed(l, k, a) = 0..BinMax /\ Pushed(l, k, a) = [j \in 0..BinMax |-> Pushed(l, k, a)[j]]
      /\ \A j \in 0..BinMax : j # k => Pushed(l, k, a)[j] = l[j]
  BY DEF Bins, Pushed
<1> DEFINE r == Pushed(l, k, a)
<1> HIDE DEF q, r
<1>4. \A j \in 0..BinMax : /\ r[j] \in Seq(Addr) /\ NoDuplicates(r[j])
                           /\ \A c : Contains(r[j], c) <=> Contains(l[j], c) \/ (j = k /\ c = a)
  <2> TAKE j \in 0..BinMax
  <2>1. CASE j = k  BY <2>1, <1>2, <1>3 DEF r, q
  <2>2. CASE j # k  BY <2>2, <1>3 DEF r, Bins
  <2> QED  BY <2>1, <2>2
<1>5. r \in [0..BinMax -> Seq(Addr)]  BY <1>3, <1>4 DEF r
<1> QED  BY <1>4, <1>5 DEF r, Bins

LEMMA RemovedBin ==
  ASSUME NEW l, Bins(l), NEW k \in 0..BinMax, NEW a
  PROVE  /\ Bins(Removed(l, k, a))
         /\ \A j \in 0..BinMax : \A c :
              Contains(Removed(l, k, a)[j], c) <=> Contains(l[j], c) /\ ~(j = k /\ c = a)
<1> DEFINE q == l[k]
<1>1. q \in Seq(Addr) /\ NoDuplicates(q)  BY DEF Bins
<1>2. /\ Without(q, a) \in Seq(Addr) /\ NoDuplicates(Without(q, a))
      /\ \A c : Contains(Without(q, a), c) <=> Contains(q, c) /\ c # a
  <2> HIDE DEF q
  <2> QED  BY <1>1, WithoutContains DEF q
<1>3. /\ Removed(l, k, a)[k] = Without(q, a)
      /\ DOMAIN Removed(l, k, a) = 0..BinMax /\ Removed(l, k, a) = [j \in 0..BinMax |-> Removed(l, k, a)[j]]
      /\ \A j \in 0..BinMax : j # k => Removed(l, k, a)[j] = l[j]
  BY DEF Bins, Removed
<1> DEFINE r == Removed(l, k, a)
<1> HIDE DEF q, r
<1>4. \A j \in 0..BinMax : /\ r[j] \in Seq(Addr) /\ NoDuplicates(r[j])
                           /\ \A c : Contains(r[j], c) <=> Contains(l[j], c) /\ ~(j = k /\ c = a)
  <2> TAKE j \in 0..BinMax
  <2>1. CASE j = k  BY <2>1, <1>2, <1>3 DEF r, q
  <2>2. CASE j # k  BY <2>2, <1>3 DEF r, Bins
  <2> QED  BY <2>1, <2>2
<1>5. r \in [0..BinMax -> Seq(Addr)]  BY <1>3, <1>4 DEF r
<1> QED  BY <1>4, <1>5 DEF r, Bins

Shortened(l, k) == [l EXCEPT ![k] = Tail(@)]

LEMMA PoppedBin ==
  ASSUME NEW l, Bins(l), NEW k \in 0..BinMax, l[k] # <<>>
  PROVE  /\ Bins(Shortened(l, k)) /\ Head(l[k]) \in Addr /\ Contains(l[k], Head(l[k]))
         /\ \A j \in 0..BinMax : \A c :
              Contains(Shortened(l, k)[j], c) <=> Contains(l[j], c) /\ ~(j = k /\ c = Head(l[k]))
<1> DEFINE q == l[k]
           r == Shortened(l, k)
<1>1. q \in Seq(Addr) /\ NoDuplicates(q) /\ q # <<>>  BY DEF Bins
<1>2. /\ Tail(q) \in Seq(Addr) /\ NoDuplicates(Tail(q)) /\ Head(q) \in Addr /\ Contains(q, Head(q))
      /\ \A c : Contains(Tail(q), c) <=> Contains(q, c) /\ c # Head(q)
  <2> HIDE DEF q
  <2>1. /\ QRest(q) = Tail(q) /\ Head(q) = q[1] /\ q[1] \in Addr /\ Len(q) \in Nat \ {0}
        /\ QRest(q) \in Seq(Addr)
    BY <1>1, PopProperties DEF QRest
  <2>2. NoDuplicates(QRest(q))  BY <1>1, PopNoDuplicates
  <2>3. Contains(q, q[1])  BY <2>1 DEF Contains
  <2>4. \A c : Contains(QRest(q), c) <=> Contains(q, c) /\ c # q[1]  BY <1>1, PopContains
  <2> QED  BY <2>1, <2>2, <2>3, <2>4
<1>3. /\ r[k] = Tail(q)
      /\ DOMAIN r = 0..BinMax /\ r = [j \in 0..BinMax |-> r[j]]
      /\ \A j \in 0..BinMax : j # k => r[j] = l[j]
  BY DEF Bins, Shortened
<1> HIDE DEF q, r
<1>4. \A j \in 0..BinMax : /\ r[j] \in Seq(Addr) /\ NoDuplicates(r[j])
                           /\ \A c : Contains(r[j], c) <=> Contains(l[j], c) /\ ~(j = k /\ c = Head(q))
  <2> TAKE j \in 0..BinMax
  <2>1. CASE j = k  BY <2>1, <1>2, <1>3 DEF q
  <2>2. CASE j # k  BY <2>2, <1>3 DEF Bins
  <2> QED  BY <2>1, <2>2
<1>5. r \in [0..BinMax -> Seq(Addr)]  BY <1>3, <1>4
<1> QED  BY <1>2, <1>4, <1>5 DEF Bins, q, r

(* Lists of addresses whose members are in D are lists over D.              *)
LEMMA BinsOver ==
  ASSUME NEW l, Bins(l), NEW D,
         \A k \in 0..BinMax : \A c \in Addr : Contains(l[k], c) => c \in D
  PROVE  l \in [0..BinMax -> Seq(D)]
<1>1. ASSUME NEW k \in 0..BinMax PROVE l[k] \in Seq(D)
  <2>1. l[k] \in Seq(Addr)  BY DEF Bins
  <2> DEFINE q == l[k]
  <2> HIDE DEF q
  <2>2. q \in Seq(Addr) /\ Len(q) \in Nat /\ DOMAIN q = 1..Len(q)  BY <2>1 DEF q
  <2>3. \A i \in 1..Len(q) : q[i] \in Addr /\ Contains(q, q[i])  BY <2>2 DEF Contains
  <2>4. \A i \in 1..Len(q) : q[i] \in D  BY <2>3 DEF q
  <2>5. q \in [1..Len(q) -> D]  BY <2>2, <2>4
  <2>6. q \in Seq(D)  BY <2>2, <2>5, SeqDef
  <2> QED  BY <2>6 DEF q
<1> QED  BY <1>1 DEF Bins

LEMMA ListedBins ==
  ASSUME NEW h, NEW t, NEW l, Listed(h, t, l)
  PROVE  Bins(l) /\ l \in [0..BinMax -> Seq(DOMAIN h)]
<1>1. Bins(l)  BY DEF Listed, Bins
<1>2. \A k \in 0..BinMax : \A c \in Addr : Contains(l[k], c) => c \in DOMAIN h
  BY DEF Listed, Belongs
<1> QED  BY <1>1, <1>2, BinsOver

(* A change of headers that no list needs to follow.                        *)
LEMMA ListedKept ==
  ASSUME NEW h, NEW t, NEW l, Listed(h, t, l), NEW g, NEW u,
         \A c \in Addr : \A k \in 0..BinMax : Belongs(g, u, c, k) <=> Belongs(h, t, c, k)
  PROVE  Listed(g, u, l)
BY DEF Listed

(* What is in a bin lies in the heap and may be given out.                  *)
LEMMA InABin ==
  ASSUME NEW h, Headers(h), NEW t, NEW l, Listed(h, t, l), NEW k \in 0..BinMax,
         NEW i \in DOMAIN l[k]
  PROVE  l[k][i] \in DOMAIN h /\ Belongs(h, t, l[k][i], k)
<1>1. l[k] \in Seq(Addr)  BY DEF Listed
<1>2. i \in 1..Len(l[k]) /\ l[k][i] \in Addr  BY <1>1
<1>3. Contains(l[k], l[k][i])  BY <1>2 DEF Contains
<1> QED  BY <1>2, <1>3 DEF Listed, Belongs

LEMMA HomeIsABin == ASSUME NEW s \in Nat PROVE Home(s) \in 0..BinMax
BY DEF Home
-----------------------------------------------------------------------------
(* The operations.                                                          *)
LEMMA RoomIn ==
  ASSUME NEW h, Geometry(h), NEW a \in DOMAIN h, NEW n \in 1..BinMax, h[a].size >= n
  PROVE  /\ a[2] + n + 2 <= PageSlots - 1
         /\ \A c \in DOMAIN h \ {a} :
              c[1] = a[1] => End(h, c) <= a[2] \/ a[2] + n + 2 <= c[2]
<1>1. Headers(h) /\ Apart(h) /\ Chained(h)  BY DEF Geometry
<1>2. /\ a \in Addr /\ a[2] \in Nat /\ h[a].size \in Nat /\ End(h, a) = a[2] + h[a].size + 2
      /\ n \in Nat
  BY <1>1, Bounds
<1>3. End(h, a) <= PageSlots - 1  BY <1>1 DEF Chained
<1>4. ASSUME NEW c \in DOMAIN h \ {a}, c[1] = a[1]
      PROVE  End(h, c) <= a[2] \/ a[2] + n + 2 <= c[2]
  <2>1. c \in Addr /\ c[2] \in Nat  BY <1>1, Bounds
  <2>2. c[2] # a[2]  BY <2>1, <1>2, <1>4, SameAddress
  <2>3. c[2] < a[2] => End(h, c) <= a[2]  BY <1>1, <1>4 DEF Apart
  <2>4. a[2] < c[2] => End(h, a) <= c[2]  BY <1>1, <1>4 DEF Apart
  <2> QED  BY <2>1, <2>2, <2>3, <2>4, <1>2
<1> QED  BY <1>2, <1>3, <1>4

(* CutTop: the last chunk of a page gives its lower part.                   *)
TopGives(h, a, n, b, g) ==
  /\ h[a].size >= n /\ b = <<a[1], a[2] + n + 2>>
  /\ DOMAIN g = DOMAIN h \cup {b} /\ \A c \in DOMAIN h \ {a} : g[c] = h[c]
  /\ g[a] = [h[a] EXCEPT !.size = n, !.used = n]
  /\ g[b] = Free(n, Left(h[a].size, n))

LEMMA TopCut ==
  ASSUME NEW h, NEW a, NEW l, Sound(h, a, l), NEW n \in 1..BinMax,
         NEW b, NEW g, TopGives(h, a, n, b, g)
  PROVE  /\ a \in DOMAIN h /\ h[a].used = 0 /\ b \notin DOMAIN h
         /\ g[a].used = n /\ g[b].used = 0 /\ Headers(g)
         /\ l \in [0..BinMax -> Seq(DOMAIN g)]
         /\ h[a].size >= n + 2 => Sound(g, b, l)
<1> USE DEF TopGives
<1>1. Headers(h) /\ Apart(h) /\ Chained(h)  BY DEF Sound, Geometry
<1>2. a \in DOMAIN h /\ h[a].used = 0 /\ End(h, a) = PageSlots - 1  BY DEF Sound, TopOK
<1>3. n \in Nat /\ n > 0 /\ n <= BinMax /\ n \in 0..BinMax /\ n \in 0..(Word - 1)
  OBVIOUS
<1>4. /\ a \in Addr /\ a[1] \in Pages /\ a[2] \in Nat /\ h[a] \in Header
      /\ h[a].size \in Nat /\ a[2] + h[a].size + 2 = PageSlots - 1
  BY <1>1, <1>2, Bounds
<1>5. /\ b[1] = a[1] /\ b[2] = a[2] + n + 2 /\ b[2] \in Nat /\ b[2] > a[2]
      /\ b[2] <= PageSlots - 1
  BY <1>3, <1>4
<1>6. b \in Addr /\ b \notin DOMAIN h
  <2>1. b \in Addr  BY <1>4, <1>5 DEF Addr, Offsets
  <2> QED  BY <2>1, <1>1, <1>2, <1>4, <1>5, LastInPage
<1>7. Left(h[a].size, n) \in 0..(Word - 1)
  <2>1. h[a].size - n - 2 \in Int /\ Word \in Nat /\ Word > 0  BY <1>3, <1>4
  <2> QED  BY <2>1 DEF Left
<1>8. g[a] \in Header /\ g[a].size = n /\ g[a].used = n
  <2> DEFINE r == h[a]
  <2>1. r \in Header /\ g[a] = [r EXCEPT !.size = n, !.used = n]  BY <1>4
  <2> HIDE DEF r
  <2> QED  BY <2>1, <1>3 DEF Header
<1>9. g[b] \in Header /\ g[b].used = 0  BY <1>3, <1>7 DEF Free, Header
<1>10. Headers(g)  BY <1>1, <1>6, <1>8, <1>9 DEF Headers
<1>11. l \in [0..BinMax -> Seq(DOMAIN g)]
  <2>1. Bins(l)  BY ListedBins DEF Sound
  <2>2. \A k \in 0..BinMax : \A c \in Addr : Contains(l[k], c) => c \in DOMAIN g
    BY DEF Sound, Listed, Belongs
  <2> QED  BY <2>1, <2>2, BinsOver
<1>12. ASSUME h[a].size >= n + 2 PROVE Sound(g, b, l)
  <2>1. Left(h[a].size, n) = h[a].size - n - 2
    <3>1. h[a].size - n - 2 \in 0..(Word - 1)  BY <1>3, <1>4, <1>12
    <3> DEFINE x == h[a].size - n - 2
    <3> HIDE DEF x
    <3>2. x \in 0..(Word - 1) => x % Word = x  OBVIOUS
    <3> QED  BY <3>1, <3>2 DEF x, Left
  <2>2. Geometry(g) /\ End(g, b) = PageSlots - 1
    <3>1. Geometry(h)  BY DEF Sound
    <3>2. g[b] = Free(n, h[a].size - n - 2)  BY <2>1
    <3>3. a \in DOMAIN h /\ End(h, a) = PageSlots - 1 /\ h[a].size >= n + 2  BY <1>2, <1>12
    <3>4. g[a] = [pre |-> h[a].pre, size |-> n, used |-> n]
      <4> DEFINE r == h[a]
      <4>1. g[a] = [r EXCEPT !.size = n, !.used = n]
            /\ r = [pre |-> r.pre, size |-> r.size, used |-> r.used]
        BY <1>4 DEF Header
      <4> HIDE DEF r
      <4>2. g[a] = [pre |-> r.pre, size |-> n, used |-> n]  BY <4>1
      <4> QED  BY <4>2 DEF r
    <3>5. CutInto(h, a, n, b, g)  BY <3>2, <3>3, <3>4, <1>5, <1>6 DEF CutInto
    <3> QED  BY <3>1, <3>5, LastCut
  <2>3. Exact(g)  BY <1>8, <1>9 DEF Sound, Exact
  <2>4. TopOK(g, b)  BY <2>2, <1>9 DEF TopOK
  <2>5. ASSUME NEW c \in Addr, NEW k \in 0..BinMax
        PROVE  Belongs(g, b, c, k) <=> Belongs(h, a, c, k)
    <3>1. CASE c = a
      <4>1. ~Belongs(g, b, a, k)  BY <1>3, <1>8 DEF Belongs
      <4>2. ~Belongs(h, a, a, k)  BY DEF Belongs
      <4> QED  BY <3>1, <4>1, <4>2
    <3>2. CASE c = b  BY <3>2, <1>6 DEF Belongs
    <3>3. CASE c \notin {a, b}  BY <3>3 DEF Belongs
    <3> QED  BY <3>1, <3>2, <3>3
  <2>6. Listed(g, b, l)  BY <2>5, ListedKept DEF Sound
  <2> QED  BY <2>2, <2>3, <2>4, <2>6 DEF Sound
<1> QED  BY <1>2, <1>6, <1>8, <1>9, <1>10, <1>11, <1>12

(* A new page: the old top chunk is freed, or dropped when it is empty.     *)
LEMMA NewTop ==
  ASSUME NEW h, NEW t, NEW l, Sound(h, t, l), NEW p \in Pages, <<p, 0>> \notin DOMAIN h,
         NEW g, DOMAIN g = DOMAIN h \cup {<<p, 0>>}, g[<<p, 0>>] = Free(0, PageSlots - 3),
         \A c \in DOMAIN h : g[c] = h[c],
         NEW r, r = IF h[t].size = 0 THEN l ELSE Pushed(l, Home(h[t].size), t)
  PROVE  Sound(g, <<p, 0>>, r)
<1> DEFINE a == <<p, 0>>
<1>1. Geometry(g) /\ End(g, a) = PageSlots - 1  BY PageAdded DEF Sound
<1> HIDE DEF a
<1>2. DOMAIN g = DOMAIN h \cup {a} /\ a \notin DOMAIN h /\ g[a].used = 0
  BY DEF a, Free
<1>3. Exact(g)  BY <1>2 DEF Sound, Exact
<1>4. TopOK(g, a)  BY <1>1, <1>2 DEF TopOK
<1>5. t \in DOMAIN h /\ t \in Addr /\ h[t].used = 0 /\ h[t].size \in Nat
  BY Bounds DEF Sound, TopOK, Geometry
<1>6. Bins(l)  BY ListedBins DEF Sound
<1>7. \A k \in 0..BinMax : \A c \in Addr : Contains(l[k], c) <=> Belongs(h, t, c, k)
  BY DEF Sound, Listed
<1>8. ASSUME NEW c \in Addr, NEW k \in 0..BinMax
      PROVE  Belongs(g, a, c, k) <=> Belongs(h, t, c, k)
                                     \/ (c = t /\ h[t].size > 0 /\ k = Home(h[t].size))
  BY <1>2, <1>5 DEF Belongs
<1>9. Listed(g, a, r)
  <2>1. CASE h[t].size = 0
    BY <2>1, <1>8, ListedKept DEF Sound
  <2>2. CASE h[t].size # 0
    <3> DEFINE k == Home(h[t].size)
    <3>1. k \in 0..BinMax /\ r = Pushed(l, k, t) /\ h[t].size > 0
      BY <2>2, <1>5, HomeIsABin
    <3>2. ~Contains(l[k], t)  BY <3>1, <1>5, <1>7 DEF Belongs
    <3> HIDE DEF k
    <3>3. /\ Bins(r)
          /\ \A j \in 0..BinMax : \A c : Contains(r[j], c) <=> Contains(l[j], c) \/ (j = k /\ c = t)
      <4>1. /\ Bins(Pushed(l, k, t))
            /\ \A j \in 0..BinMax : \A c :
                 Contains(Pushed(l, k, t)[j], c) <=> Contains(l[j], c) \/ (j = k /\ c = t)
        BY <3>1, <3>2, <1>5, <1>6, PushedBin
      <4> QED  BY <3>1, <4>1
    <3>4. \A j \in 0..BinMax : \A c \in Addr : Contains(r[j], c) <=> Belongs(g, a, c, j)
      BY <3>1, <3>3, <1>7, <1>8 DEF k
    <3> QED  BY <3>3, <3>4 DEF Bins, Listed
  <2> QED  BY <2>1, <2>2
<1> QED  BY <1>1, <1>3, <1>4, <1>9 DEF Sound, a

(* Free, unless it is merged: the chunk goes to the bin of its size.        *)
LEMMA FreedAlone ==
  ASSUME NEW h, NEW t, NEW l, Sound(h, t, l), NEW a \in DOMAIN h, h[a].used > 0,
         NEW g, DOMAIN g = DOMAIN h, g[a] = [h[a] EXCEPT !.used = 0],
         \A c \in DOMAIN h \ {a} : g[c] = h[c]
  PROVE  Sound(g, t, Pushed(l, Home(h[a].size), a))
<1>1. /\ h[a] \in Header /\ a \in Addr /\ h[a].used \in 0..BinMax /\ h[a].size \in Nat
      /\ Headers(h)
  BY Bounds DEF Sound, Geometry
<1>2. h[a].used = h[a].size  BY <1>1 DEF Sound, Exact
<1>3. a # t  BY DEF Sound, TopOK
<1>4. /\ DOMAIN g = DOMAIN h
      /\ \A c \in DOMAIN h \ {a} : g[c] = h[c]
      /\ g[a] = [h[a] EXCEPT !.used = 0]
  OBVIOUS
<1>5. g[a].used = 0 /\ g[a].size = h[a].size /\ g[a].pre = h[a].pre /\ g[a] \in Header
  <2> DEFINE r == h[a]
  <2>1. r \in Header /\ g[a] = [r EXCEPT !.used = 0]  BY <1>1, <1>4
  <2> HIDE DEF r
  <2>2. 0 \in 0..BinMax /\ r = [pre |-> r.pre, size |-> r.size, used |-> r.used]
    BY <2>1 DEF Header
  <2>3. g[a] = [pre |-> r.pre, size |-> r.size, used |-> 0]  BY <2>1, <2>2
  <2>4. g[a].used = 0 /\ g[a].size = r.size /\ g[a].pre = r.pre /\ g[a] \in Header
    BY <2>1, <2>2, <2>3 DEF Header
  <2> QED  BY <2>4 DEF r
<1>6. \A c \in DOMAIN h : g[c] \in Header /\ g[c].size = h[c].size /\ g[c].pre = h[c].pre
  BY <1>1, <1>4, <1>5 DEF Headers
<1>7. Geometry(g) /\ \A c \in DOMAIN h : End(g, c) = End(h, c)
  <2>1. Geometry(h)  BY DEF Sound
  <2> QED  BY <2>1, <1>4, <1>6, GeometryKept
<1>8. Exact(g)  BY <1>4, <1>5 DEF Sound, Exact
<1>9. TopOK(g, t)  BY <1>3, <1>4, <1>7 DEF Sound, TopOK
<1> DEFINE k == Home(h[a].size)
           r == Pushed(l, k, a)
<1>10. k \in 0..BinMax  BY <1>1, HomeIsABin
<1>11. \A j \in 0..BinMax : \A c \in Addr : Contains(l[j], c) <=> Belongs(h, t, c, j)
  BY DEF Sound, Listed
<1>12. ~Contains(l[k], a)  BY <1>1, <1>10, <1>11 DEF Belongs
<1>13. ASSUME NEW c \in Addr, NEW j \in 0..BinMax
       PROVE  Belongs(g, t, c, j) <=> Belongs(h, t, c, j) \/ (j = k /\ c = a)
  <2>1. CASE c = a  BY <2>1, <1>1, <1>2, <1>3, <1>4, <1>5 DEF Belongs
  <2>2. CASE c # a  BY <2>2, <1>4 DEF Belongs
  <2> QED  BY <2>1, <2>2
<1>14. /\ Bins(r)
       /\ \A j \in 0..BinMax : \A c : Contains(r[j], c) <=> Contains(l[j], c) \/ (j = k /\ c = a)
  <2>1. Bins(l)  BY ListedBins DEF Sound
  <2> HIDE DEF k
  <2> QED  BY <2>1, <1>1, <1>10, <1>12, PushedBin
<1> HIDE DEF r, k
<1>15. Listed(g, t, r)  BY <1>11, <1>13, <1>14 DEF Bins, Listed
<1> QED  BY <1>7, <1>8, <1>9, <1>15 DEF Sound, r, k

(* Free with a merge: the chunk before was in its bin, so it is found.      *)
LEMMA FreedMerged ==
  ASSUME NEW h, NEW t, NEW l, Sound(h, t, l), NEW a, NEW b, NEW m, NEW g,
         JoinedInto(h, a, b, m, g), h[a].used > 0, h[b].used = 0
  PROVE  /\ Contains(l[Home(h[b].size)], b)
         /\ Sound(g, t, Pushed(Removed(l, Home(h[b].size), b), Home(m), b))
<1>1. Geometry(h) /\ Headers(h) /\ Bins(l)  BY ListedBins DEF Sound, Geometry
<1>2. /\ Geometry(g) /\ b \in DOMAIN g /\ b # a
      /\ h[b].size > 0 /\ m \in Nat /\ m > 0 /\ End(h, b) # PageSlots - 1
      /\ g[b].size = m /\ g[b].used = 0
      /\ \A c \in DOMAIN h \ {a, b} : /\ End(g, c) = End(h, c) /\ g[c].size = h[c].size
                                      /\ g[c].used = h[c].used
  BY <1>1, TwoJoined
<1>3. DOMAIN g = DOMAIN h \ {a} /\ a \in DOMAIN h  BY DEF JoinedInto
<1>4. b \in DOMAIN h /\ b \in Addr /\ h[b].size \in Nat  BY <1>1, <1>2, <1>3, Bounds
<1>5. t \in DOMAIN h /\ t # a /\ t # b  BY <1>2 DEF Sound, TopOK
<1>6. \A j \in 0..BinMax : \A c \in Addr : Contains(l[j], c) <=> Belongs(h, t, c, j)
  BY DEF Sound, Listed
<1> DEFINE k == Home(h[b].size)
           p == Home(m)
           q == Removed(l, k, b)
           r == Pushed(q, p, b)
<1>7. k \in 0..BinMax /\ p \in 0..BinMax  BY <1>2, <1>4, HomeIsABin
<1>8. Contains(l[k], b)
  <2>1. Belongs(h, t, b, k)  BY <1>2, <1>4, <1>5 DEF Belongs
  <2> QED  BY <2>1, <1>4, <1>6, <1>7
<1> HIDE DEF k, p
<1>9. /\ Bins(q)
      /\ \A j \in 0..BinMax : \A c : Contains(q[j], c) <=> Contains(l[j], c) /\ ~(j = k /\ c = b)
  BY <1>1, <1>7, RemovedBin
<1> HIDE DEF q
<1>10. /\ Bins(r)
       /\ \A j \in 0..BinMax : \A c : Contains(r[j], c) <=> Contains(q[j], c) \/ (j = p /\ c = b)
  <2>1. ~Contains(q[p], b)
    <3>1. CASE p = k  BY <3>1, <1>7, <1>9
    <3>2. CASE p # k
      <4>1. ~Belongs(h, t, b, p)  BY <3>2 DEF Belongs, k
      <4> QED  BY <4>1, <1>4, <1>6, <1>7, <1>9
    <3> QED  BY <3>1, <3>2
  <2> QED  BY <2>1, <1>4, <1>7, <1>9, PushedBin
<1> HIDE DEF r
<1>11. ASSUME NEW c \in Addr, NEW j \in 0..BinMax
       PROVE  Contains(r[j], c) <=> Belongs(g, t, c, j)
  <2>1. CASE c = a
    <3>1. ~Belongs(h, t, a, j) /\ ~Belongs(g, t, a, j)  BY <1>3 DEF Belongs
    <3> QED  BY <2>1, <3>1, <1>2, <1>6, <1>9, <1>10
  <2>2. CASE c = b
    <3>1. Contains(l[j], b) => j = k  BY <1>4, <1>6 DEF Belongs, k
    <3>2. Contains(r[j], b) <=> j = p  BY <3>1, <1>9, <1>10
    <3>3. Belongs(g, t, b, j) <=> j = p  BY <1>2, <1>5 DEF Belongs, p
    <3> QED  BY <2>2, <3>2, <3>3
  <2>3. CASE c \notin {a, b}
    <3>1. Contains(r[j], c) <=> Belongs(h, t, c, j)  BY <2>3, <1>6, <1>9, <1>10
    <3>2. Belongs(g, t, c, j) <=> Belongs(h, t, c, j)  BY <2>3, <1>2, <1>3 DEF Belongs
    <3> QED  BY <3>1, <3>2
  <2> QED  BY <2>1, <2>2, <2>3
<1>12. Listed(g, t, r)  BY <1>10, <1>11 DEF Listed, Bins
<1>13. Exact(g)  BY <1>2, <1>3 DEF Sound, Exact
<1>14. TopOK(g, t)  BY <1>2, <1>3, <1>5 DEF Sound, TopOK
<1> QED  BY <1>2, <1>8, <1>12, <1>13, <1>14 DEF Sound, k, p, q, r

LEMMA SoundTypes ==
  ASSUME NEW h, NEW t, NEW l, Sound(h, t, l)
  PROVE  Headers(h) /\ t \in DOMAIN h /\ l \in [0..BinMax -> Seq(DOMAIN h)]
BY ListedBins DEF Sound, Geometry, TopOK

(* from_small_bin: the first chunk of the bin has the size asked for.       *)
LEMMA SmallBinStep ==
  ASSUME harm = "none", Sound(chunk, top, list), NEW n \in 1..BinMax, from_small_bin(n)
  PROVE  Sound(chunk, top, list)' /\ harm' = "none" /\ \E a \in Addr : Gives(n, a)
<1> DEFINE a == Head(list[n])
<1>1. /\ list[n] # <<>> /\ list' = Shortened(list, n)
      /\ chunk' = [chunk EXCEPT ![a].used = n] /\ top' = top /\ harm' = harm
  BY DEF from_small_bin, Popped, Shortened
<1>2. n \in 0..BinMax /\ n > 0 /\ n \in Nat  OBVIOUS
<1>3. Geometry(chunk) /\ Headers(chunk) /\ Bins(list)  BY ListedBins DEF Sound, Geometry
<1>4. /\ Bins(list') /\ a \in Addr /\ Contains(list[n], a)
      /\ \A j \in 0..BinMax : \A c :
           Contains(list'[j], c) <=> Contains(list[j], c) /\ ~(j = n /\ c = a)
  BY <1>1, <1>2, <1>3, PoppedBin
<1> HIDE DEF a
<1>5. \A j \in 0..BinMax : \A c \in Addr : Contains(list[j], c) <=> Belongs(chunk, top, c, j)
  BY DEF Sound, Listed
<1>6. a \in DOMAIN chunk /\ chunk[a].used = 0 /\ a # top /\ chunk[a].size = n
  <2>1. Belongs(chunk, top, a, n)  BY <1>2, <1>4, <1>5
  <2>2. a \in DOMAIN chunk /\ chunk[a].used = 0 /\ a # top /\ n = Home(chunk[a].size)
    BY <2>1 DEF Belongs
  <2> QED  BY <2>2, <1>2 DEF Home
<1>7. /\ DOMAIN chunk' = DOMAIN chunk /\ chunk'[a] = [chunk[a] EXCEPT !.used = n]
      /\ \A c \in DOMAIN chunk \ {a} : chunk'[c] = chunk[c]
  BY <1>1, <1>6
<1>8. /\ chunk'[a].used = n /\ chunk'[a].size = chunk[a].size
      /\ chunk'[a].pre = chunk[a].pre /\ chunk'[a] \in Header
  <2> DEFINE r == chunk[a]
  <2>1. /\ r \in Header /\ chunk'[a] = [r EXCEPT !.used = n]
        /\ r = [pre |-> r.pre, size |-> r.size, used |-> r.used]
    BY <1>3, <1>6, <1>7 DEF Headers, Header
  <2> HIDE DEF r
  <2>2. chunk'[a] = [pre |-> r.pre, size |-> r.size, used |-> n]  BY <2>1
  <2>3. chunk'[a].used = n /\ chunk'[a].size = r.size /\ chunk'[a].pre = r.pre /\ chunk'[a] \in Header
    BY <1>2, <2>1, <2>2 DEF Header
  <2> QED  BY <2>3 DEF r
<1>9. \A c \in DOMAIN chunk : /\ chunk'[c] \in Header /\ chunk'[c].size = chunk[c].size
                              /\ chunk'[c].pre = chunk[c].pre
  BY <1>3, <1>7, <1>8 DEF Headers
<1>10. Geometry(chunk') /\ \A c \in DOMAIN chunk : End(chunk', c) = End(chunk, c)
  BY <1>3, <1>7, <1>9, GeometryKept
<1>11. Exact(chunk')  BY <1>6, <1>7, <1>8 DEF Sound, Exact
<1>12. TopOK(chunk', top)  BY <1>6, <1>7, <1>10 DEF Sound, TopOK
<1>13. ASSUME NEW c \in Addr, NEW j \in 0..BinMax
       PROVE  Contains(list'[j], c) <=> Belongs(chunk', top, c, j)
  <2>1. CASE c = a
    <3>1. ~Belongs(chunk', top, a, j)  BY <1>2, <1>8 DEF Belongs
    <3>2. Contains(list[j], a) => j = n
      BY <1>2, <1>4, <1>5, <1>6 DEF Belongs, Home
    <3> QED  BY <2>1, <3>1, <3>2, <1>4
  <2>2. CASE c # a
    <3>1. Belongs(chunk', top, c, j) <=> Belongs(chunk, top, c, j)
      BY <2>2, <1>7 DEF Belongs
    <3> QED  BY <2>2, <3>1, <1>4, <1>5
  <2> QED  BY <2>1, <2>2
<1>14. Listed(chunk', top, list')  BY <1>4, <1>13 DEF Listed, Bins
<1>15. Sound(chunk', top, list')  BY <1>10, <1>11, <1>12, <1>14 DEF Sound
<1>16. Gives(n, a)
  <2>1. a \notin Used /\ Used' = Used \cup {a} /\ \A c \in Used : chunk'[c].used = chunk[c].used
    <3>1. a \notin Used  BY <1>6 DEF Used
    <3>2. Used' = {c \in DOMAIN chunk' : chunk'[c].used > 0}  BY DEF Used
    <3>3. \A c \in Used : chunk'[c].used = chunk[c].used  BY <3>1, <1>7 DEF Used
    <3>4. chunk'[a].used > 0  BY <1>2, <1>8
    <3>5. \A c : c \in Used' <=> c \in Used \/ c = a
      BY <3>2, <3>4, <1>6, <1>7 DEF Used
    <3> QED  BY <3>1, <3>3, <3>5
  <2>2. /\ a[2] + n + 2 <= PageSlots - 1
        /\ \A c \in DOMAIN chunk \ {a} :
             c[1] = a[1] => End(chunk, c) <= a[2] \/ a[2] + n + 2 <= c[2]
    <3>1. chunk[a].size >= n  BY <1>2, <1>6
    <3> QED  BY <3>1, <1>3, <1>6, RoomIn
  <2>3. Used \subseteq DOMAIN chunk \ {a}  BY <2>1 DEF Used
  <2> QED  BY <2>1, <2>2, <2>3, <1>4, <1>8 DEF Gives
<1> QED  BY <1>1, <1>4, <1>15, <1>16

(* from_unsort_bin: what the caller gets is right; the headers are not.     *)
LEMMA UnsortStep ==
  ASSUME harm = "none", Sound(chunk, top, list), NEW n \in 1..BinMax, from_unsort_bin(n)
  PROVE  /\ Headers(chunk') /\ top' \in DOMAIN chunk'
         /\ list' \in [0..BinMax -> Seq(DOMAIN chunk')]
         /\ harm' = "cut" /\ \E a \in Addr : Gives(n, a)
<1>1. PICK i \in DOMAIN list[0], garbage \in 0..Room :
        LET a    == list[0][i]
            b    == <<a[1], a[2] + n + 2>>
            rest == chunk[a].size - n - 2
        IN  /\ CutAt(n, i)
            /\ chunk' = [c \in DOMAIN chunk \cup {b} |->
                           IF c = a THEN [pre |-> n + 2, size |-> n + 2, used |-> n]
                           ELSE IF c = b THEN Free(garbage, rest) ELSE chunk[c]]
            /\ list' = IF rest = 0 THEN Removed(list, 0, a)
                       ELSE Pushed(Removed(list, 0, a), Home(rest), b)
            /\ top' = IF rest = 0 THEN b ELSE top
  BY DEF from_unsort_bin
<1> DEFINE a    == list[0][i]
           b    == <<a[1], a[2] + n + 2>>
           rest == chunk[a].size - n - 2
           q    == Removed(list, 0, a)
<1>2. n \in Nat /\ n > 0 /\ n <= BinMax /\ 0 \in 0..BinMax  OBVIOUS
<1>3. Geometry(chunk) /\ Headers(chunk) /\ Apart(chunk) /\ Chained(chunk) /\ Bins(list)
  BY ListedBins DEF Sound, Geometry
<1>4. a \in DOMAIN chunk /\ Belongs(chunk, top, a, 0)
  BY <1>2, <1>3, InABin DEF Sound
<1>5. chunk[a].size >= n + 2  BY <1>1 DEF CutAt
<1>6. a # b /\ chunk'[a] = [pre |-> n + 2, size |-> n + 2, used |-> n]
      /\ DOMAIN chunk' = DOMAIN chunk \cup {b} /\ chunk'[b] = Free(garbage, rest)
      /\ \A c \in DOMAIN chunk \ {a, b} : chunk'[c] = chunk[c]
  <2>1. a \in Addr /\ a[2] \in Nat  BY <1>3, <1>4, Bounds
  <2>2. b[2] # a[2]  BY <2>1, <1>2
  <2>3. a # b  BY <2>2
  <2> HIDE DEF a, b, rest
  <2> QED  BY <1>1, <1>4, <2>3 DEF a, b, rest
<1>7. list' = (IF rest = 0 THEN q ELSE Pushed(q, Home(rest), b)) /\ top' = IF rest = 0 THEN b ELSE top
  BY <1>1
<1>8. b[1] = a[1] /\ b[2] = a[2] + n + 2  OBVIOUS
<1> HIDE DEF b, a
<1>9. /\ a \in Addr /\ a[1] \in Pages /\ a[2] \in Nat /\ chunk[a].size \in Nat
      /\ End(chunk, a) = a[2] + chunk[a].size + 2 /\ chunk[a].used = 0
      /\ chunk[a].size <= Word - 1
  BY <1>3, <1>4, Bounds DEF Belongs, Header
<1>10. rest \in Nat /\ rest <= Word - 1 /\ End(chunk, a) <= PageSlots - 1
  <2>1. End(chunk, a) <= PageSlots - 1  BY <1>3, <1>4 DEF Chained
  <2> QED  BY <2>1, <1>2, <1>5, <1>9
<1>11. b \in Addr /\ b \notin DOMAIN chunk
  <2>1. b[2] \in Nat /\ b[2] <= PageSlots - 1 /\ a[2] < b[2] /\ b[2] < End(chunk, a)
    BY <1>2, <1>5, <1>8, <1>9, <1>10
  <2>2. b \in Addr  BY <2>1, <1>8, <1>9 DEF Addr, Offsets, b
  <2>3. b \notin DOMAIN chunk
    <3> SUFFICES ASSUME b \in DOMAIN chunk PROVE FALSE  OBVIOUS
    <3>1. End(chunk, a) <= b[2]  BY <2>1, <1>3, <1>4, <1>8 DEF Apart
    <3> QED  BY <3>1, <2>1, <1>9, <1>8, <1>2
  <2> QED  BY <2>2, <2>3
<1> HIDE DEF rest, q
<1>12. Headers(chunk')
  <2>1. chunk'[a] \in Header  BY <1>2, <1>6 DEF Header
  <2>2. chunk'[b] \in Header  BY <1>6, <1>10 DEF Header, Free
  <2> QED  BY <2>1, <2>2, <1>3, <1>6, <1>11 DEF Headers
<1>13. top' \in DOMAIN chunk'  BY <1>6, <1>7 DEF Sound, TopOK
<1>14. /\ Bins(q)
       /\ \A j \in 0..BinMax : \A c : Contains(q[j], c) => Contains(list[j], c)
  BY <1>2, <1>3, RemovedBin DEF q
<1>15. \A j \in 0..BinMax : \A c \in Addr : Contains(list[j], c) => c \in DOMAIN chunk
  BY DEF Sound, Listed, Belongs
<1>16. Bins(list') /\ \A j \in 0..BinMax : \A c \in Addr : Contains(list'[j], c) => c \in DOMAIN chunk'
  <2>1. CASE rest = 0  BY <2>1, <1>6, <1>7, <1>14, <1>15
  <2>2. CASE rest # 0
    <3>1. Home(rest) \in 0..BinMax  BY <1>10, HomeIsABin
    <3>2. ~Contains(q[Home(rest)], b)  BY <3>1, <1>11, <1>14, <1>15
    <3> DEFINE r == Pushed(q, Home(rest), b)
    <3>3. /\ Bins(r)
          /\ \A j \in 0..BinMax : \A c :
               Contains(r[j], c) <=> Contains(q[j], c) \/ (j = Home(rest) /\ c = b)
      BY <3>1, <3>2, <1>11, <1>14, PushedBin
    <3>4. list' = r  BY <2>2, <1>7
    <3> HIDE DEF r
    <3> QED  BY <3>3, <3>4, <1>6, <1>14, <1>15
  <2> QED  BY <2>1, <2>2
<1>17. list' \in [0..BinMax -> Seq(DOMAIN chunk')]  BY <1>16, BinsOver
<1>18. Gives(n, a)
  <2>1. a \notin Used /\ Used' = Used \cup {a} /\ \A c \in Used : chunk'[c].used = chunk[c].used
    BY <1>2, <1>4, <1>6, <1>9, <1>11 DEF Used, Free
  <2>2. /\ a[2] + n + 2 <= PageSlots - 1
        /\ \A c \in DOMAIN chunk \ {a} :
             c[1] = a[1] => End(chunk, c) <= a[2] \/ a[2] + n + 2 <= c[2]
    <3>1. chunk[a].size >= n  BY <1>2, <1>5, <1>9
    <3> QED  BY <3>1, <1>3, <1>4, RoomIn
  <2>3. Used \subseteq DOMAIN chunk \ {a}  BY <2>1 DEF Used
  <2> QED  BY <2>1, <2>2, <2>3, <1>6, <1>9 DEF Gives
<1>19. harm' = "cut"  BY DEF from_unsort_bin
<1> QED  BY <1>9, <1>12, <1>13, <1>17, <1>18, <1>19

(* CutTop, from the headers h with a top chunk at a and the bins l.         *)
LEMMA CutTopStep ==
  ASSUME NEW h, NEW a, NEW l, Sound(h, a, l), NEW n \in 1..BinMax, h[a].size >= n,
         CutTop(n, h, a), list' = l
  PROVE  /\ a \in DOMAIN h /\ h[a].used = 0
         /\ Headers(chunk') /\ top' \in DOMAIN chunk' /\ list' \in [0..BinMax -> Seq(DOMAIN chunk')]
         /\ harm' \in {"none", "top"} /\ (harm' = "none" => Sound(chunk, top, list)')
         /\ DOMAIN chunk' = DOMAIN h \cup {top'} /\ top' \notin DOMAIN h
         /\ chunk'[a].used = n /\ chunk'[top'].used = 0
         /\ \A c \in DOMAIN h \ {a} : chunk'[c] = h[c]
<1> DEFINE b == <<a[1], a[2] + n + 2>>
           g == chunk'
<1>1. /\ g = [c \in DOMAIN h \cup {b} |->
                IF c = a THEN [h[a] EXCEPT !.size = n, !.used = n]
                ELSE IF c = b THEN Free(n, Left(h[a].size, n)) ELSE h[c]]
      /\ top' = b /\ harm' = IF h[a].size < n + 2 THEN "top" ELSE "none"
  BY DEF CutTop
<1>2. /\ a \in DOMAIN h /\ Headers(h) /\ a \in Addr /\ a[2] \in Nat /\ h[a].size \in Nat
      /\ Apart(h) /\ Chained(h) /\ End(h, a) = PageSlots - 1
      /\ End(h, a) = a[2] + h[a].size + 2
  BY Bounds DEF Sound, TopOK, Geometry
<1>3. n \in Nat /\ n > 0  OBVIOUS
<1>4. b \notin DOMAIN h
  <2>1. b[1] = a[1] /\ b[2] > a[2]  BY <1>2, <1>3
  <2> HIDE DEF b
  <2> QED  BY <2>1, <1>2, LastInPage, Bounds
<1> HIDE DEF b
<1>5. TopGives(h, a, n, b, g)
  <2>1. b = <<a[1], a[2] + n + 2>>  BY DEF b
  <2>2. a # b  BY <1>2, <1>4
  <2>3. /\ DOMAIN g = DOMAIN h \cup {b} /\ \A c \in DOMAIN h \ {a} : g[c] = h[c]
        /\ g[a] = [h[a] EXCEPT !.size = n, !.used = n]
        /\ g[b] = Free(n, Left(h[a].size, n))
    BY <1>1, <1>2, <1>4, <2>2
  <2> QED  BY <2>1, <2>3 DEF TopGives
<1> HIDE DEF g
<1>6. /\ h[a].used = 0 /\ g[a].used = n /\ g[b].used = 0 /\ Headers(g)
      /\ l \in [0..BinMax -> Seq(DOMAIN g)]
      /\ h[a].size >= n + 2 => Sound(g, b, l)
  BY <1>5, TopCut
<1>7. DOMAIN g = DOMAIN h \cup {b} /\ \A c \in DOMAIN h \ {a} : g[c] = h[c]
  BY <1>5 DEF TopGives
<1>8. harm' \in {"none", "top"} /\ (harm' = "none" => h[a].size >= n + 2)  BY <1>1, <1>2, <1>3
<1> QED  BY <1>1, <1>2, <1>4, <1>6, <1>7, <1>8 DEF g

LEMMA TopStep ==
  ASSUME harm = "none", Sound(chunk, top, list), NEW n \in 1..BinMax, from_top_chunk(n)
  PROVE  /\ Headers(chunk') /\ top' \in DOMAIN chunk'
         /\ list' \in [0..BinMax -> Seq(DOMAIN chunk')]
         /\ harm' \in {"none", "top"} /\ (harm' = "none" => Sound(chunk, top, list)')
         /\ \E a \in Addr : Gives(n, a)
<1>1. chunk[top].size >= n /\ CutTop(n, chunk, top) /\ list' = list  BY DEF from_top_chunk
<1>2. /\ top \in DOMAIN chunk /\ chunk[top].used = 0
      /\ Headers(chunk') /\ top' \in DOMAIN chunk' /\ list' \in [0..BinMax -> Seq(DOMAIN chunk')]
      /\ harm' \in {"none", "top"} /\ (harm' = "none" => Sound(chunk, top, list)')
      /\ DOMAIN chunk' = DOMAIN chunk \cup {top'} /\ top' \notin DOMAIN chunk
      /\ chunk'[top].used = n /\ chunk'[top'].used = 0
      /\ \A c \in DOMAIN chunk \ {top} : chunk'[c] = chunk[c]
  BY <1>1, CutTopStep
<1>3. Geometry(chunk) /\ top \in Addr  BY <1>2 DEF Sound, Geometry, Headers
<1>4. Gives(n, top)
  <2>1. n > 0 /\ n \in Nat  OBVIOUS
  <2>2. top \notin Used  BY <1>2 DEF Used
  <2>3. \A c \in Used : chunk'[c].used = chunk[c].used  BY <2>2, <1>2 DEF Used
  <2>4. Used' = Used \cup {top}
    <3>1. Used' = {c \in DOMAIN chunk' : chunk'[c].used > 0}  BY DEF Used
    <3>2. \A c : c \in Used' <=> c \in Used \/ c = top  BY <3>1, <2>1, <1>2 DEF Used
    <3> QED  BY <3>2
  <2>5. /\ top[2] + n + 2 <= PageSlots - 1
        /\ \A c \in DOMAIN chunk \ {top} :
             c[1] = top[1] => End(chunk, c) <= top[2] \/ top[2] + n + 2 <= c[2]
    BY <1>1, <1>2, <1>3, RoomIn
  <2>6. Used \subseteq DOMAIN chunk \ {top}  BY <2>2 DEF Used
  <2> QED  BY <2>2, <2>3, <2>4, <2>5, <2>6, <1>2, <1>3 DEF Gives
<1> QED  BY <1>2, <1>3, <1>4

LEMMA NewPageStep ==
  ASSUME harm = "none", Sound(chunk, top, list), NEW n \in 1..BinMax, from_new_page(n)
  PROVE  /\ Headers(chunk') /\ top' \in DOMAIN chunk'
         /\ list' \in [0..BinMax -> Seq(DOMAIN chunk')]
         /\ harm' \in {"none", "top"} /\ (harm' = "none" => Sound(chunk, top, list)')
         /\ \E a \in Addr : Gives(n, a)
<1>1. PICK p \in Untaken :
        CutTop(n, [c \in DOMAIN chunk \cup {<<p, 0>>} |->
                     IF c = <<p, 0>> THEN Free(0, PageSlots - 3) ELSE chunk[c]], <<p, 0>>)
  <2>1. PageSlots - 1 - 2 = PageSlots - 3  OBVIOUS
  <2> QED  BY <2>1 DEF from_new_page
<1> DEFINE a == <<p, 0>>
           h == [c \in DOMAIN chunk \cup {a} |->
                   IF c = a THEN Free(0, PageSlots - 3) ELSE chunk[c]]
           r == IF chunk[top].size = 0 THEN list ELSE Pushed(list, Home(chunk[top].size), top)
<1>2. CutTop(n, h, a) /\ list' = r  BY <1>1 DEF from_new_page
<1>3. p \in Pages /\ <<p, 0>> \notin DOMAIN chunk  BY DEF Untaken
<1>4. /\ DOMAIN h = DOMAIN chunk \cup {<<p, 0>>} /\ h[<<p, 0>>] = Free(0, PageSlots - 3)
      /\ \A c \in DOMAIN chunk : h[c] = chunk[c]
  BY <1>3
<1> HIDE DEF h, r
<1>5. Sound(h, a, r)  BY <1>3, <1>4, NewTop DEF r
<1>6. h[a].size >= n /\ h[a].used = 0  BY <1>4 DEF Free
<1>7. a[1] = p /\ a[2] = 0 /\ a \in Addr  BY <1>3 DEF Addr, Offsets
<1>8. DOMAIN h = DOMAIN chunk \cup {a} /\ a \notin DOMAIN chunk /\ a \in DOMAIN h  BY <1>3, <1>4
<1> HIDE DEF a
<1>9. /\ Headers(chunk') /\ top' \in DOMAIN chunk' /\ list' \in [0..BinMax -> Seq(DOMAIN chunk')]
      /\ harm' \in {"none", "top"} /\ (harm' = "none" => Sound(chunk, top, list)')
      /\ DOMAIN chunk' = DOMAIN h \cup {top'} /\ top' \notin DOMAIN h
      /\ chunk'[a].used = n /\ chunk'[top'].used = 0
      /\ \A c \in DOMAIN h \ {a} : chunk'[c] = h[c]
  BY <1>2, <1>5, <1>6, CutTopStep
<1>10. Geometry(h) /\ Chained(chunk)  BY <1>5 DEF Sound, Geometry
<1>11. Gives(n, a)
  <2>1. n > 0 /\ n \in Nat  OBVIOUS
  <2>2. a \notin Used  BY <1>8 DEF Used
  <2>3. \A c \in Used : chunk'[c].used = chunk[c].used
    BY <2>2, <1>4, <1>8, <1>9 DEF Used
  <2>4. Used' = Used \cup {a}
    <3>1. Used' = {c \in DOMAIN chunk' : chunk'[c].used > 0}  BY DEF Used
    <3>2. \A c : c \in Used' <=> c \in Used \/ c = a
      BY <3>1, <2>1, <1>4, <1>8, <1>9 DEF Used
    <3> QED  BY <3>2
  <2>5. a[2] + n + 2 <= PageSlots - 1  BY <1>6, <1>8, <1>10, RoomIn
  <2>6. \A c \in DOMAIN chunk : c[1] # a[1]  BY <1>3, <1>7, <1>10 DEF Chained
  <2> QED  BY <2>2, <2>3, <2>4, <2>5, <2>6, <1>7, <1>9 DEF Gives, Used
<1> QED  BY <1>7, <1>9, <1>11

(* dynamic_free, with and without a merge.                                  *)
LEMMA FreeStep ==
  ASSUME harm = "none", Sound(chunk, top, list), NEW a \in Used, dynamic_free(a)
  PROVE  Sound(chunk, top, list)' /\ harm' = "none" /\ TakesBack(a)
<1>1. a \in DOMAIN chunk /\ chunk[a].used > 0  BY DEF Used
<1>2. top' = top /\ harm' = harm  BY DEF dynamic_free
<1>3. Geometry(chunk) /\ Headers(chunk) /\ Tagged(chunk)  BY DEF Sound, Geometry
<1>4. CASE /\ ~Merges(a) /\ chunk' = [chunk EXCEPT ![a].used = 0]
           /\ list' = Pushed(list, Home(chunk[a].size), a)
  <2>1. /\ DOMAIN chunk' = DOMAIN chunk /\ chunk'[a] = [chunk[a] EXCEPT !.used = 0]
        /\ \A c \in DOMAIN chunk \ {a} : chunk'[c] = chunk[c]
    BY <1>1, <1>4
  <2>2. Sound(chunk', top, list')
    <3> DEFINE g == chunk'
    <3>1. /\ DOMAIN g = DOMAIN chunk /\ g[a] = [chunk[a] EXCEPT !.used = 0]
          /\ \A c \in DOMAIN chunk \ {a} : g[c] = chunk[c]
      BY <2>1
    <3> HIDE DEF g
    <3>2. Sound(g, top, Pushed(list, Home(chunk[a].size), a))  BY <3>1, <1>1, FreedAlone
    <3> QED  BY <3>2, <1>4 DEF g
  <2>3. chunk'[a].used = 0
    <3> DEFINE r == chunk[a]
    <3>1. r \in Header /\ chunk'[a] = [r EXCEPT !.used = 0]  BY <2>1, <1>1, <1>3 DEF Headers
    <3> HIDE DEF r
    <3> QED  BY <3>1 DEF Header
  <2>4. TakesBack(a)
    <3>1. \A c \in Used \ {a} : chunk'[c].used = chunk[c].used  BY <2>1 DEF Used
    <3>2. Used' = {c \in DOMAIN chunk' : chunk'[c].used > 0}  BY DEF Used
    <3>3. ASSUME NEW c PROVE c \in Used' <=> c \in Used \ {a}
      <4>1. CASE c = a  BY <4>1, <3>2, <2>3
      <4>2. CASE c # a
        <5>1. c \in DOMAIN chunk => chunk'[c] = chunk[c]  BY <4>2, <2>1
        <5> QED  BY <4>2, <5>1, <3>2, <2>1 DEF Used
      <4> QED  BY <4>1, <4>2
    <3> QED  BY <3>1, <3>3 DEF TakesBack
  <2> QED  BY <2>2, <2>4, <1>2
<1>5. CASE Merges(a) /\ dynamic_merge_chunk(a)
  <2> DEFINE b == Prv(chunk, a)
             m == chunk[a].size + chunk[b].size + 2
             k == Home(chunk[b].size)
  <2>1. Before(a) = b /\ MergedSize(a) = m /\ After(a) = Nxt(chunk, a)
    BY DEF Before, MergedSize, After, Prv, Nxt, End
  <2>2. chunk[a].pre # 0 /\ chunk[b].used = 0  BY <1>5, <2>1 DEF Merges
  <2>3. a[2] # 0  BY <2>2, <1>1, <1>3 DEF Tagged
  <2>4. b \in DOMAIN chunk  BY <2>3, <1>1, <1>3 DEF Tagged
  <2> HIDE DEF b, m
  <2>5. b # a
    <3>1. b[2] = a[2] - chunk[a].pre - 2 /\ a[2] \in Nat /\ chunk[a].pre \in Nat
      BY <1>1, <1>3, Bounds DEF b, Prv
    <3> QED  BY <3>1
  <2> DEFINE g == Joined(a, b)
  <2>6. JoinedInto(chunk, a, b, m, g)
    <3>1. g = [c \in DOMAIN chunk \ {a} |->
                 IF c = b THEN Free(chunk[b].pre, m)
                 ELSE IF c = Nxt(chunk, a) THEN [chunk[c] EXCEPT !.pre = m] ELSE chunk[c]]
      BY <2>1 DEF Joined
    <3> HIDE DEF g
    <3>2. /\ DOMAIN g = DOMAIN chunk \ {a} /\ g[b] = Free(chunk[b].pre, m)
          /\ \A c \in DOMAIN chunk \ {a, b} :
               IF c = Nxt(chunk, a) THEN g[c] = [chunk[c] EXCEPT !.pre = m] ELSE g[c] = chunk[c]
      BY <3>1, <2>4, <2>5
    <3>3. b = Prv(chunk, a) /\ m = chunk[a].size + chunk[b].size + 2  BY DEF b, m
    <3> QED  BY <3>2, <3>3, <1>1, <2>3 DEF JoinedInto
  <2> HIDE DEF g
  <2>7. /\ Contains(list[k], b)
        /\ Sound(g, top, Pushed(Removed(list, k, b), Home(m), b))
    BY <1>1, <2>2, <2>6, FreedMerged
  <2>8. chunk' = g /\ list' = Pushed(Removed(list, k, b), Home(m), b)
    BY <1>5, <2>1, <2>7 DEF dynamic_merge_chunk, g
  <2>9. TakesBack(a)
    <3>1. /\ b \in DOMAIN g /\ g[b].used = 0
          /\ \A c \in DOMAIN chunk \ {a, b} : g[c].used = chunk[c].used
      BY <1>3, <2>6, TwoJoined
    <3>2. DOMAIN g = DOMAIN chunk \ {a}  BY <2>6 DEF JoinedInto
    <3>3. \A c \in Used \ {a} : c # b /\ chunk'[c].used = chunk[c].used
      BY <3>1, <2>2, <2>8 DEF Used
    <3>4. Used' = {c \in DOMAIN g : g[c].used > 0}  BY <2>8 DEF Used
    <3>5. \A c : c \in Used' <=> c \in Used \ {a}
      BY <3>1, <3>2, <3>4, <2>2 DEF Used
    <3> QED  BY <3>3, <3>5 DEF TakesBack
  <2> QED  BY <2>7, <2>8, <2>9, <1>2
<1> QED  BY <1>4, <1>5 DEF dynamic_free
-----------------------------------------------------------------------------
(* The steps as steps of the allocator.                                     *)
LEMMA GivesIsGrant ==
  ASSUME Sound(chunk, top, list), NEW n \in 1..BinMax, NEW a \in Addr, Gives(n, a),
         ret' = <<n, "granted">>
  PROVE  Allocator!Next
<1> DEFINE Rs == [k \in 1..BinMax |->
                    {Data(<<p, o>>, k) : p \in Pages, o \in 0..(PageSlots - Hdr - k)}]
           H  == {Data(c, chunk[c].used) : c \in Used}
           r  == Data(a, n)
<1>1. n \in Nat /\ n > 0 /\ a[1] \in Pages /\ a[2] \in Nat /\ a = <<a[1], a[2]>>
  BY DEF Addr, Offsets
<1>2. r \in Rs[n]
  <2> DEFINE p == a[1]
             o == a[2]
  <2>1. p \in Pages /\ o \in 0..(PageSlots - Hdr - n)  BY <1>1 DEF Gives
  <2>2. r = Data(<<p, o>>, n)  BY <1>1
  <2>3. Rs[n] = {Data(<<pp, oo>>, n) : pp \in Pages, oo \in 0..(PageSlots - Hdr - n)}
    OBVIOUS
  <2> HIDE DEF p, o, Rs, r
  <2>4. r \in {Data(<<pp, oo>>, n) : pp \in Pages, oo \in 0..(PageSlots - Hdr - n)}
    BY <2>1, <2>2
  <2> QED  BY <2>3, <2>4
<1>3. ASSUME NEW c \in Used PROVE r \cap Data(c, chunk[c].used) = {}
  <2>1. /\ c \in DOMAIN chunk /\ c[2] \in Nat /\ chunk[c].used = chunk[c].size
        /\ chunk[c].size \in Nat /\ End(chunk, c) = c[2] + chunk[c].size + 2
    <3>1. c \in DOMAIN chunk /\ chunk[c].used # 0 /\ Headers(chunk)
      <4>1. c \in DOMAIN chunk /\ chunk[c].used > 0 /\ Headers(chunk)
        BY DEF Used, Sound, Geometry
      <4> QED  BY <4>1, Bounds
    <3> QED  BY <3>1, Bounds DEF Sound, Exact
  <2>2. c[1] = a[1] => End(chunk, c) <= a[2] \/ a[2] + n + 2 <= c[2]  BY DEF Gives
  <2> SUFFICES ASSUME NEW x, x \in r, x \in Data(c, chunk[c].used) PROVE FALSE  OBVIOUS
  <2>3. PICK o \in (a[2] + 2)..(a[2] + 2 + n - 1) : x = <<a[1], o>>  BY DEF Data
  <2>4. PICK u \in (c[2] + 2)..(c[2] + 2 + chunk[c].used - 1) : x = <<c[1], u>>  BY DEF Data
  <2>5. o = u /\ c[1] = a[1]  BY <2>3, <2>4
  <2> QED  BY <2>1, <2>2, <2>3, <2>4, <2>5, <1>1
<1>4. H' = H \cup {r}
  <2>1. chunk'[a].used = n /\ \A c \in Used : chunk'[c].used = chunk[c].used
    BY DEF Gives
  <2>2. Used' = Used \cup {a}  BY DEF Gives
  <2>3. H' = {Data(c, chunk'[c].used) : c \in Used \cup {a}}  BY <2>2 DEF Data
  <2> QED  BY <2>1, <2>3
<1>5. Allocator!Fits(r)  BY <1>3 DEF Allocator!Fits
<1>6. Allocator!Grant(n)
  <2>1. \E x \in Rs[n] : Allocator!Fits(x) /\ H' = H \cup {x} /\ ret' = <<n, "granted">>
    <3> HIDE DEF Rs, H, r
    <3> QED  BY <1>2, <1>4, <1>5
  <2> QED  BY <2>1 DEF Allocator!Grant
<1> QED  BY <1>6 DEF Allocator!Next

LEMMA TakesBackIsRelease ==
  ASSUME Sound(chunk, top, list), NEW a, TakesBack(a), ret' = <<0, "none">>
  PROVE  Allocator!Next
<1> DEFINE H == {Data(c, chunk[c].used) : c \in Used}
           r == Data(a, chunk[a].used)
<1>1. a \in Used /\ Used' = Used \ {a} /\ \A c \in Used \ {a} : chunk'[c].used = chunk[c].used
  BY DEF TakesBack
<1>2. ASSUME NEW c \in Used
      PROVE  /\ c \in DOMAIN chunk /\ c \in Addr /\ c[2] \in Nat /\ chunk[c].used \in Nat
             /\ chunk[c].used > 0 /\ End(chunk, c) = c[2] + chunk[c].used + 2
             /\ c = <<c[1], c[2]>>
  <2>1. c \in DOMAIN chunk /\ chunk[c].used > 0 /\ Headers(chunk)
    BY DEF Used, Sound, Geometry
  <2>2. chunk[c].used \in {0, chunk[c].size}  BY <2>1 DEF Sound, Exact
  <2> QED  BY <2>1, <2>2, Bounds
<1>3. ASSUME NEW c \in Used \ {a} PROVE Data(c, chunk[c].used) # r
  <2>1. Apart(chunk)  BY DEF Sound, Geometry
  <2>2. <<c[1], c[2] + 2>> \in Data(c, chunk[c].used)  BY <1>2 DEF Data
  <2>3. ASSUME <<c[1], c[2] + 2>> \in r PROVE FALSE
    <3>1. PICK o \in (a[2] + 2)..(a[2] + 2 + chunk[a].used - 1) : <<c[1], c[2] + 2>> = <<a[1], o>>
      BY <2>3 DEF Data
    <3>2. c[1] = a[1] /\ a[2] <= c[2] /\ c[2] + 2 <= a[2] + 2 + chunk[a].used - 1
      BY <3>1, <1>1, <1>2
    <3>3. a[2] # c[2]  BY <3>2, <1>1, <1>2, SameAddress
    <3>4. a[2] < c[2]  BY <3>2, <3>3, <1>1, <1>2
    <3>5. End(chunk, a) <= c[2]  BY <3>2, <3>4, <2>1, <1>1, <1>2 DEF Apart
    <3> QED  BY <3>2, <3>5, <1>1, <1>2
  <2> QED  BY <2>2, <2>3
<1>4. H' = {Data(c, chunk'[c].used) : c \in Used \ {a}}  BY <1>1 DEF Data
<1>5. H' = {Data(c, chunk[c].used) : c \in Used \ {a}}  BY <1>1, <1>4
<1> HIDE DEF r
<1>6. H' = H \ {r}
  <2>1. ASSUME NEW c \in Used, c # a PROVE Data(c, chunk[c].used) # r  BY <1>3, <2>1
  <2>2. r = Data(a, chunk[a].used)  BY DEF r
  <2> QED  BY <2>1, <2>2, <1>1, <1>5
<1>7. r \in H  BY <1>1 DEF r
<1>8. Allocator!Release  BY <1>6, <1>7 DEF Allocator!Release
<1> QED  BY <1>8 DEF Allocator!Next
-----------------------------------------------------------------------------
LEMMA HeapInit == Init => IInv /\ Allocator!Init
<1> SUFFICES ASSUME Init PROVE IInv /\ Allocator!Init  OBVIOUS
<1>1. PICK p \in Pages : chunk = [a \in {<<p, 0>>} |-> Free(0, PageSlots - 3)] /\ top = <<p, 0>>
  <2>1. PageSlots - 1 - 2 = PageSlots - 3  OBVIOUS
  <2> QED  BY <2>1 DEF Init
<1>2. list = [k \in 0..BinMax |-> <<>>] /\ harm = "none" /\ ret = <<0, "none">>  BY DEF Init
<1>3. /\ DOMAIN chunk = {top} /\ chunk[top].pre = 0 /\ chunk[top].size = PageSlots - 3
      /\ chunk[top].used = 0 /\ top \in Addr /\ top[1] = p /\ top[2] = 0 /\ top = <<top[1], 0>>
      /\ chunk[top] \in Header
  BY <1>1 DEF Free, Addr, Offsets, Header
<1>4. End(chunk, top) = PageSlots - 1  BY <1>3 DEF End
<1>5. Headers(chunk) /\ Apart(chunk) /\ Chained(chunk) /\ Tagged(chunk)
  <2>1. Headers(chunk)  BY <1>3 DEF Headers
  <2>2. Apart(chunk)  BY <1>3 DEF Apart
  <2>3. Chained(chunk)  BY <1>3, <1>4 DEF Chained
  <2>4. Tagged(chunk)  BY <1>3 DEF Tagged
  <2> QED  BY <2>1, <2>2, <2>3, <2>4
<1>6. Exact(chunk) /\ TopOK(chunk, top)  BY <1>3, <1>4 DEF Exact, TopOK
<1>7. Listed(chunk, top, list)
  <2>1. \A k \in 0..BinMax : list[k] = <<>> /\ Len(list[k]) = 0  BY <1>2
  <2>2. list \in [0..BinMax -> Seq(Addr)]  BY <1>2
  <2>3. \A k \in 0..BinMax : NoDuplicates(list[k]) /\ \A a : ~Contains(list[k], a)
    BY <2>1 DEF NoDuplicates, Contains
  <2>4. \A a, k : ~Belongs(chunk, top, a, k)  BY <1>3 DEF Belongs
  <2> QED  BY <2>2, <2>3, <2>4 DEF Listed
<1>8. Sound(chunk, top, list)  BY <1>5, <1>6, <1>7 DEF Sound, Geometry
<1>9. TypeOK  BY <1>2, <1>8, SoundTypes DEF TypeOK, Headers, Header
<1>10. Used = {}  BY <1>3 DEF Used
<1>11. Allocator!Init  BY <1>2, <1>10 DEF Allocator!Init
<1> QED  BY <1>8, <1>9, <1>11 DEF IInv

LEMMA HeapStep == IInv /\ [Next]_vars => IInv' /\ [Allocator!Next]_(Allocator!vars)
<1> SUFFICES ASSUME IInv, [Next]_vars PROVE IInv' /\ [Allocator!Next]_(Allocator!vars)
  OBVIOUS
<1>1. ASSUME UNCHANGED vars PROVE IInv' /\ UNCHANGED Allocator!vars
  <2>1. chunk' = chunk /\ top' = top /\ list' = list /\ harm' = harm /\ ret' = ret
    BY <1>1 DEF vars
  <2>2. TypeOK'  BY <2>1 DEF IInv, TypeOK
  <2>3. harm' = "none" => Sound(chunk', top', list')  BY <2>1 DEF IInv
  <2>4. Used' = Used  BY <2>1 DEF Used
  <2>5. UNCHANGED Allocator!vars  BY <2>1, <2>4 DEF Allocator!vars, Data
  <2> QED  BY <2>2, <2>3, <2>5 DEF IInv
<1>2. ASSUME NEW n \in 1..BinMax, dynamic_malloc(n) PROVE IInv' /\ Allocator!Next
  <2>1. harm = "none" /\ ret' = <<n, "granted">> /\ Sound(chunk, top, list)
    BY <1>2 DEF dynamic_malloc, IInv
  <2>2. /\ Headers(chunk') /\ top' \in DOMAIN chunk'
        /\ list' \in [0..BinMax -> Seq(DOMAIN chunk')]
        /\ harm' \in {"none", "top", "cut"} /\ (harm' = "none" => Sound(chunk, top, list)')
        /\ \E a \in Addr : Gives(n, a)
    <3>1. CASE from_small_bin(n)
      <4>1. Sound(chunk, top, list)' /\ harm' = "none" /\ \E a \in Addr : Gives(n, a)
        BY <2>1, <3>1, SmallBinStep
      <4> QED  BY <4>1, SoundTypes
    <3>2. CASE from_unsort_bin(n)  BY <2>1, <3>2, UnsortStep
    <3>3. CASE from_top_chunk(n)  BY <2>1, <3>3, TopStep
    <3>4. CASE from_new_page(n)  BY <2>1, <3>4, NewPageStep
    <3> QED  BY <3>1, <3>2, <3>3, <3>4, <1>2 DEF dynamic_malloc
  <2>3. Allocator!Next  BY <2>1, <2>2, GivesIsGrant
  <2>4. TypeOK'  BY <2>1, <2>2 DEF TypeOK, Headers, Header
  <2> QED  BY <2>2, <2>3, <2>4 DEF IInv
<1>3. ASSUME NEW a \in Used, dynamic_free(a) PROVE IInv' /\ Allocator!Next
  <2>1. harm = "none" /\ ret' = <<0, "none">> /\ Sound(chunk, top, list)
    BY <1>3 DEF dynamic_free, IInv
  <2>2. Sound(chunk, top, list)' /\ harm' = "none" /\ TakesBack(a)
    BY <2>1, <1>3, FreeStep
  <2>3. Allocator!Next  BY <2>1, <2>2, TakesBackIsRelease
  <2>4. Headers(chunk') /\ top' \in DOMAIN chunk' /\ list' \in [0..BinMax -> Seq(DOMAIN chunk')]
    BY <2>2, SoundTypes
  <2>5. TypeOK'  BY <2>1, <2>2, <2>4 DEF TypeOK, Headers, Header
  <2> QED  BY <2>2, <2>3, <2>5 DEF IInv
<1> QED  BY <1>1, <1>2, <1>3 DEF Next

(***************************************************************************)
(* The headers and bins of dynamic.c keep their types, whatever the history *)
(* of calls, up to and including the step that does harm.                   *)
(***************************************************************************)
THEOREM HeapTypes == Spec => []TypeOK
<1>1. IInv => TypeOK  BY DEF IInv
<1> QED  BY <1>1, HeapInit, HeapStep, PTL DEF Spec

(***************************************************************************)
(* What dynamic_malloc returns is of the size asked for, in one page, and   *)
(* nobody else's: the heap implements the allocator, for any page size, and *)
(* even in the step that spoils the headers.                                *)
(***************************************************************************)
THEOREM HeapIsAllocator == Spec => IsAllocator
BY HeapInit, HeapStep, PTL DEF Spec, IsAllocator, Allocator!Spec

(* Every slot of a page but the last is in one chunk: the last chunk that   *)
(* starts at or before the slot ends behind it.                             *)
LEMMA SlotsCovered ==
  ASSUME NEW h, Geometry(h), NEW p \in Pages, <<p, 0>> \in DOMAIN h, NEW o \in 0..(PageSlots - 2)
  PROVE  \E a \in DOMAIN h :
           /\ a[1] = p /\ a[2] <= o /\ o < End(h, a)
           /\ \A b \in DOMAIN h \ {a} : b[1] = p => o < b[2] \/ End(h, b) <= o
<1>1. Headers(h) /\ Apart(h) /\ Chained(h)  BY DEF Geometry
<1>2. o \in Nat /\ o <= PageSlots - 2 /\ PageSlots \in Nat  OBVIOUS
<1> DEFINE C == {c \in DOMAIN h : c[1] = p /\ c[2] <= o}
           T == {PageSlots - c[2] : c \in C}
<1>3. \A c \in DOMAIN h : /\ c \in Addr /\ c[2] \in Nat /\ c[2] <= PageSlots - 1
                          /\ End(h, c) \in Nat /\ End(h, c) > c[2]
  BY <1>1, Bounds
<1>4. <<p, 0>> \in C  BY <1>2
<1>5. T \subseteq Nat /\ T # {}  BY <1>2, <1>3, <1>4
<1> HIDE DEF T
<1>6. PICK m \in T : \A k \in T : m <= k  BY <1>5, LeastNat
<1>7. PICK a \in C : m = PageSlots - a[2]  BY DEF T
<1>8. a \in DOMAIN h /\ a[1] = p /\ a[2] <= o /\ a[2] \in Nat  BY <1>3
<1>9. ASSUME NEW c \in DOMAIN h, c[1] = p, c[2] <= o PROVE c[2] <= a[2]
  <2>1. c \in C  BY <1>9
  <2>2. PageSlots - c[2] \in T  BY <2>1 DEF T
  <2>3. m <= PageSlots - c[2]  BY <2>2, <1>6
  <2> QED  BY <2>3, <1>2, <1>3, <1>7, <1>8, <1>9
<1> HIDE DEF C
<1>10. o < End(h, a)
  <2> SUFFICES ASSUME End(h, a) <= o PROVE FALSE  BY <1>2, <1>3, <1>8
  <2>1. End(h, a) # PageSlots - 1  BY <1>2, <1>3, <1>8
  <2>2. Nxt(h, a) \in DOMAIN h  BY <2>1, <1>1, <1>8 DEF Chained
  <2>3. Nxt(h, a)[1] = p /\ Nxt(h, a)[2] = End(h, a)  BY <1>8 DEF Nxt
  <2>4. End(h, a) <= a[2]  BY <2>2, <2>3, <1>9
  <2> QED  BY <2>4, <1>3, <1>8
<1>11. ASSUME NEW b \in DOMAIN h \ {a}, b[1] = p, ~(o < b[2]) PROVE End(h, b) <= o
  <2>1. b[2] <= o  BY <1>2, <1>3, <1>11
  <2>2. b[2] <= a[2]  BY <2>1, <1>9, <1>11
  <2>3. b[2] # a[2]  BY <1>3, <1>8, <1>11, SameAddress
  <2>4. b[2] < a[2]  BY <2>2, <2>3, <1>3, <1>8, <1>11
  <2>5. End(h, b) <= a[2]  BY <2>4, <1>1, <1>8, <1>11 DEF Apart
  <2> QED  BY <2>5, <1>2, <1>3, <1>8, <1>11
<1> QED  BY <1>8, <1>10, <1>11

LEMMA SoundIsWellFormed == IInv => HeapWellFormed
<1> SUFFICES ASSUME IInv, harm = "none" PROVE HeapWellFormed
  BY DEF HeapWellFormed, Tiled, BoundaryTags, ListsRight
<1>1. Sound(chunk, top, list) /\ Geometry(chunk) /\ Headers(chunk) /\ Tagged(chunk)
  BY DEF IInv, Sound, Geometry
<1>2. Tiled
  <2> SUFFICES ASSUME NEW p \in Pages \ Untaken, NEW o \in 0..(PageSlots - 2)
               PROVE  \E a \in DOMAIN chunk :
                        /\ <<p, o>> \in Extent(a)
                        /\ \A b \in DOMAIN chunk \ {a} : <<p, o>> \notin Extent(b)
    BY DEF Tiled
  <2>1. p \in Pages /\ <<p, 0>> \in DOMAIN chunk  BY DEF Untaken
  <2>2. PICK a \in DOMAIN chunk :
          /\ a[1] = p /\ a[2] <= o /\ o < End(chunk, a)
          /\ \A b \in DOMAIN chunk \ {a} : b[1] = p => o < b[2] \/ End(chunk, b) <= o
    BY <2>1, <1>1, SlotsCovered
  <2>3. ASSUME NEW c \in DOMAIN chunk
        PROVE  <<p, o>> \in Extent(c) <=> c[1] = p /\ c[2] <= o /\ o < End(chunk, c)
    <3>1. c[2] \in Nat /\ chunk[c].size \in Nat /\ End(chunk, c) = c[2] + chunk[c].size + 2
      BY <1>1, Bounds
    <3>2. o \in c[2]..(c[2] + 2 + chunk[c].size - 1) <=> c[2] <= o /\ o < End(chunk, c)
      BY <3>1
    <3>3. <<p, o>> \in Extent(c) <=> c[1] = p /\ o \in c[2]..(c[2] + 2 + chunk[c].size - 1)
      BY DEF Extent
    <3> QED  BY <3>2, <3>3
  <2>4. \A b \in DOMAIN chunk : b[2] \in Nat /\ End(chunk, b) \in Nat  BY <1>1, Bounds
  <2>5. \A b \in DOMAIN chunk \ {a} : <<p, o>> \notin Extent(b)  BY <2>2, <2>3, <2>4
  <2> QED  BY <2>2, <2>3, <2>5
<1>3. BoundaryTags
  <2> SUFFICES ASSUME NEW a \in DOMAIN chunk
               PROVE  /\ chunk[a].pre = First <=> a[2] = 0
                      /\ After(a) \in DOMAIN chunk => chunk[After(a)].pre = chunk[a].size
    BY DEF BoundaryTags
  <2>1. After(a) = Nxt(chunk, a)  BY DEF After, Nxt, End
  <2>2. Nxt(chunk, a) \in DOMAIN chunk => chunk[Nxt(chunk, a)].pre = chunk[a].size
    BY <1>1, TagOfNext
  <2>3. chunk[a].pre = 0 <=> a[2] = 0  BY <1>1 DEF Tagged
  <2> QED  BY <2>1, <2>2, <2>3
<1>4. ListsRight
  <2> SUFFICES ASSUME NEW k \in 0..BinMax
               PROVE  /\ NoDuplicates(list[k])
                      /\ \A a \in DOMAIN chunk :
                           Contains(list[k], a) <=> /\ chunk[a].used = 0 /\ a # top
                                                    /\ chunk[a].size > 0
                                                    /\ k = IF chunk[a].size > BinMax THEN 0
                                                           ELSE chunk[a].size
    BY DEF ListsRight
  <2>1. NoDuplicates(list[k]) /\ \A a \in Addr : Contains(list[k], a) <=> Belongs(chunk, top, a, k)
    BY <1>1 DEF Sound, Listed
  <2>2. ASSUME NEW a \in DOMAIN chunk
        PROVE  Home(chunk[a].size) = IF chunk[a].size > BinMax THEN 0 ELSE chunk[a].size
    <3>1. chunk[a].size \in Nat  BY <1>1, Bounds
    <3> QED  BY <3>1 DEF Home
  <2>3. \A a \in DOMAIN chunk : a \in Addr  BY <1>1 DEF Headers
  <2> QED  BY <2>1, <2>2, <2>3 DEF Belongs
<1> QED  BY <1>2, <1>3, <1>4 DEF HeapWellFormed

(***************************************************************************)
(* For any page size and any number of bins and pages, and after any        *)
(* history of requests and frees: chunks tile their pages, pre_size leads   *)
(* from each chunk to the one before it, and the bins hold exactly what is  *)
(* free, as long as neither of the two harmful branches has been taken.     *)
(***************************************************************************)
THEOREM HeapIsWellFormed == Spec => []HeapWellFormed
BY HeapInit, HeapStep, SoundIsWellFormed, PTL DEF Spec
=============================================================================
