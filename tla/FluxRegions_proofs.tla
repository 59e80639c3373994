------------------------- MODULE FluxRegions_proofs -------------------------
(***************************************************************************)
(* The regions of ConservedSystem's calls cover the interior and nothing    *)
(* else, for every scheme that the factories build and every block that is  *)
(* large enough for the exchange.  All ranges are intervals; what is left   *)
(* to be said is what the number of ghost cells has to be for each kind of  *)
(* scheme, and that what is in the arrays is a function of the calls that   *)
(* were made.                                                               *)
(***************************************************************************)
EXTENDS FluxRegions, TLAPS

(* Schemes.                                                                 *)

\* What the names of fluxes, reconstructions and diffusions lead to.
LEMMA BuiltScheme ==
  ASSUME NEW s \in Built
  PROVE  /\ s.platform \in {"cpu", "cuda"} /\ s.half \in 1 .. 3 /\ s.order \in 1 .. 4
         /\ s.kind \in {"copy", "weno", "eno", "limiter"} /\ s.diffusion \in 0 .. 4
         /\ s.kind = "copy" => s.order = 1
         /\ s.kind \in {"eno", "limiter", "weno"} => s.order > 1
  <1>1. PICK p \in Platforms, e \in Equations :
          s \in {[platform |-> p, half |-> HalfStencil(f), order |-> Order(r), kind |-> Kind(r),
                  diffusion |-> DiffusionGhosts(d, n)] :
                   f \in FluxesOf(e), r \in Reconstructions(p, e),
                   d \in Diffusions(e), n \in EntropyReconstructions}
    BY DEF Built
  <1>2. PICK f \in FluxesOf(e), r \in Reconstructions(p, e), d \in Diffusions(e),
             n \in EntropyReconstructions :
          s = [platform |-> p, half |-> HalfStencil(f), order |-> Order(r), kind |-> Kind(r),
               diffusion |-> DiffusionGhosts(d, n)]
    BY <1>1
  <1>3. /\ s.platform = p /\ s.half = HalfStencil(f) /\ s.order = Order(r)
        /\ s.kind = Kind(r) /\ s.diffusion = DiffusionGhosts(d, n)
    BY <1>2
  <1>4. HalfStencil(f) \in 1 .. 3
    BY DEF HalfStencil
  <1>5. \A name : Order(name) \in 1 .. 4
    BY DEF Order
  <1>6. /\ Kind(r) \in {"copy", "weno", "eno", "limiter"}
        /\ Kind(r) = "copy" => Order(r) = 1
        /\ Kind(r) \in {"eno", "limiter", "weno"} => Order(r) > 1
    BY DEF Kind, Order, Enos
  <1>7. DiffusionGhosts(d, n) \in 0 .. 4
    BY <1>5 DEF DiffusionGhosts
  <1> QED
    BY <1>1, <1>3, <1>4, <1>5, <1>6, <1>7 DEF Platforms

\* The ghost cells are enough for one face: half the cells of the flux, and
\* what the reconstruction of the outermost of them reads.
LEMMA GhostsOf ==
  ASSUME NEW s \in Built, Sound(s)
  PROVE  /\ Ghosts(s) \in Nat /\ Ghosts(s) > 0
         /\ Ghosts(s) >= s.order /\ Ghosts(s) >= s.half + s.order - 1
         /\ Ghosts(s) >= s.diffusion
  <1>1. PICK h \in 1 .. 3, k \in 1 .. 4, f \in 0 .. 4 :
          /\ h = s.half /\ k = s.order /\ f = s.diffusion
          /\ h > 1 => k = 1
    BY BuiltScheme DEF Sound
  <1>2. PICK g \in Nat : g = FluxGhosts(s) /\ g >= 2 * h - 1 /\ g >= k
    BY <1>1 DEF FluxGhosts, Larger
  <1>3. PICK n \in Nat : n = Ghosts(s) /\ n >= g /\ n >= f
    <2>1. Ghosts(s) = IF g >= f THEN g ELSE f
      BY <1>1, <1>2 DEF Ghosts, Larger
    <2> QED
      BY <2>1
  <1>4. n > 0 /\ n >= k /\ n >= h + k - 1
    BY <1>1, <1>2, <1>3
  <1> QED
    BY <1>1, <1>3, <1>4

-----------------------------------------------------------------------------
(* Ranges.                                                                  *)

\* Threads counted from an offset reach what the loops of the CPU do.
LEMMA PlatformsAgree ==
  ASSUME NEW N \in Int, NEW g \in Int, NEW from \in Int, NEW to \in Int, NEW s
  PROVE  /\ Updated(s, N, g, from, to) = g + from .. N - g + to - 1
         /\ Faces(s, N, g, from, to) = g - 1 + from .. N - g + to - 1
  <1>1. UpdatedOnCuda(N, g, from, to) = g + from .. N - g + to - 1
    <2>1. \A x : x \in UpdatedOnCuda(N, g, from, to) =>
                   x \in g + from .. N - g + to - 1
      BY DEF UpdatedOnCuda
    <2>2. ASSUME NEW x \in g + from .. N - g + to - 1
          PROVE  x \in UpdatedOnCuda(N, g, from, to)
      <3>1. x - g - from \in 0 .. N - 2 * g - from + to - 1 /\ x = (x - g - from) + g + from
        OBVIOUS
      <3> QED
        BY <3>1 DEF UpdatedOnCuda
    <2> QED
      BY <2>1, <2>2
  <1>2. FacesOnCuda(N, g, from, to) = g - 1 + from .. N - g + to - 1
    <2>1. \A x : x \in FacesOnCuda(N, g, from, to) =>
                   x \in g - 1 + from .. N - g + to - 1
      BY DEF FacesOnCuda
    <2>2. ASSUME NEW x \in g - 1 + from .. N - g + to - 1
          PROVE  x \in FacesOnCuda(N, g, from, to)
      <3>1. /\ x - g + 1 - from \in 0 .. N - 2 * g + 1 - from + to - 1
            /\ x = (x - g + 1 - from) + g - 1 + from
        OBVIOUS
      <3> QED
        BY <3>1 DEF FacesOnCuda
    <2> QED
      BY <2>1, <2>2
  <1> QED
    BY <1>1, <1>2 DEF Updated, UpdatedOnCpu, Faces, FacesOnCpu

\* A scheme and a block that fits it.
Setting ==
  /\ scheme \in Schemes /\ Sound(scheme)
  /\ size \in Sizes /\ Fits(scheme, size)

\* A direction has at least three ghost widths of cells, ghost cells included.
LEMMA GivenNumbers ==
  ASSUME Setting
  PROVE  /\ Dimensions \in 1 .. 3 /\ scheme \in Built /\ Ghost \in Nat /\ Ghost > 0
         /\ \A d \in Dims : d \in 1 .. 3 /\ Total(d) \in Nat /\ Total(d) >= 3 * Ghost
  <1>1. Dimensions \in 1 .. 3 /\ scheme \in Built
    BY SizesAssumption DEF Setting
  <1>2. Ghost \in Nat /\ Ghost > 0
    BY <1>1, GhostsOf DEF Setting, Ghost
  <1>3. ASSUME NEW d \in Dims
        PROVE  d \in 1 .. 3 /\ Total(d) \in Nat /\ Total(d) >= 3 * Ghost
    <2>1. size[d] \in Nat /\ size[d] >= Ghost
      BY SizesAssumption DEF Setting, Fits, Ghost
    <2> QED
      BY <1>1, <1>2, <2>1 DEF Total, Dims
  <1> QED
    BY <1>1, <1>2, <1>3

\* The cells and faces of each call in each direction.
LEMMA RangesOf ==
  ASSUME Setting, NEW c \in 0 .. LastFlux, NEW d \in Dims
  PROVE  /\ Start(c, d) \in Nat /\ End(c, d) \in Int /\ End(c, d) <= 0
         /\ UpdatedAlong(c, d) = Ghost + Start(c, d) .. Total(d) - Ghost + End(c, d) - 1
         /\ FacesAlong(c, d) = Ghost - 1 + Start(c, d) .. Total(d) - Ghost + End(c, d) - 1
         /\ c = 0 => /\ UpdatedAlong(c, d) = 2 * Ghost .. Total(d) - 2 * Ghost - 1
                     /\ FacesAlong(c, d) = 2 * Ghost - 1 .. Total(d) - 2 * Ghost - 1
         /\ c = 2 * d - 1 => /\ UpdatedAlong(c, d) = Ghost .. 2 * Ghost - 1
                             /\ FacesAlong(c, d) = Ghost - 1 .. 2 * Ghost - 1
         /\ c = 2 * d => /\ UpdatedAlong(c, d) = Total(d) - 2 * Ghost .. Total(d) - Ghost - 1
                         /\ FacesAlong(c, d) = Total(d) - 2 * Ghost - 1 .. Total(d) - Ghost - 1
         /\ c # 0 /\ c # 2 * d - 1 /\ c # 2 * d =>
              /\ UpdatedAlong(c, d) = Ghost .. Total(d) - Ghost - 1
              /\ FacesAlong(c, d) = Ghost - 1 .. Total(d) - Ghost - 1
  <1>1. PICK g \in Nat, N \in Nat : g = Ghost /\ g > 0 /\ N = Total(d) /\ N >= 3 * g
    BY GivenNumbers
  <1>2. c \in Int /\ d \in 1 .. 3
    BY GivenNumbers DEF LastFlux
  <1>3. /\ Start(c, d) = IF c = 0 THEN g ELSE IF c = 2 * d THEN N - 3 * g ELSE 0
        /\ End(c, d) = IF c = 0 THEN -g ELSE IF c = 2 * d - 1 THEN 3 * g - N ELSE 0
    BY <1>1 DEF Start, End
  <1>4. Start(c, d) \in Nat /\ End(c, d) \in Int /\ End(c, d) <= 0
    BY <1>1, <1>2, <1>3
  <1>5. /\ UpdatedAlong(c, d) = g + Start(c, d) .. N - g + End(c, d) - 1
        /\ FacesAlong(c, d) = g - 1 + Start(c, d) .. N - g + End(c, d) - 1
    BY <1>1, <1>4, PlatformsAgree DEF UpdatedAlong, FacesAlong
  <1>6. CASE c = 0
    <2>1. Start(c, d) = g /\ End(c, d) = -g
      BY <1>3, <1>6
    <2>2. /\ g + Start(c, d) = 2 * g /\ g - 1 + Start(c, d) = 2 * g - 1
          /\ N - g + End(c, d) - 1 = N - 2 * g - 1
      BY <1>1, <2>1
    <2>3. c # 2 * d - 1 /\ c # 2 * d
      BY <1>2, <1>6
    <2> QED
      BY <1>1, <1>4, <1>5, <1>6, <2>2, <2>3, Zenon
  <1>7. CASE c # 0 /\ c = 2 * d - 1
    <2>1. Start(c, d) = 0 /\ End(c, d) = 3 * g - N
      BY <1>2, <1>3, <1>7
    <2>2. /\ g + Start(c, d) = g /\ g - 1 + Start(c, d) = g - 1
          /\ N - g + End(c, d) - 1 = 2 * g - 1
      BY <1>1, <2>1
    <2>3. c # 2 * d
      BY <1>2, <1>7
    <2> QED
      BY <1>1, <1>4, <1>5, <1>7, <2>2, <2>3, Zenon
  <1>8. CASE c # 0 /\ c = 2 * d
    <2>1. Start(c, d) = N - 3 * g /\ End(c, d) = 0
      BY <1>2, <1>3, <1>8
    <2>2. /\ g + Start(c, d) = N - 2 * g /\ g - 1 + Start(c, d) = N - 2 * g - 1
          /\ N - g + End(c, d) - 1 = N - g - 1
      BY <1>1, <2>1
    <2>3. c # 2 * d - 1
      BY <1>2, <1>8
    <2> QED
      BY <1>1, <1>4, <1>5, <1>8, <2>2, <2>3, Zenon
  <1>9. CASE c # 0 /\ c # 2 * d - 1 /\ c # 2 * d
    <2>1. Start(c, d) = 0 /\ End(c, d) = 0
      BY <1>2, <1>3, <1>9
    <2>2. /\ g + Start(c, d) = g /\ g - 1 + Start(c, d) = g - 1
          /\ N - g + End(c, d) - 1 = N - g - 1
      BY <1>1, <2>1
    <2> QED
      BY <1>1, <1>4, <1>5, <1>9, <2>2, Zenon
  <1> QED
    BY <1>6, <1>7, <1>8, <1>9

-----------------------------------------------------------------------------
(* What covers what.                                                        *)

\* The strips of direction d are as long as the interior in the others.
LEMMA StripRanges ==
  ASSUME Setting, NEW d \in Dims, NEW e \in Dims
  PROVE  /\ 2 * d - 1 \in 0 .. LastFlux /\ 2 * d \in 0 .. LastFlux
         /\ UpdatedAlong(2 * d - 1, e) =
              IF e = d THEN Ghost .. 2 * Ghost - 1 ELSE Ghost .. Total(e) - Ghost - 1
         /\ UpdatedAlong(2 * d, e) =
              IF e = d THEN Total(e) - 2 * Ghost .. Total(e) - Ghost - 1
                       ELSE Ghost .. Total(e) - Ghost - 1
         /\ FacesAlong(2 * d - 1, e) =
              IF e = d THEN Ghost - 1 .. 2 * Ghost - 1 ELSE Ghost - 1 .. Total(e) - Ghost - 1
         /\ FacesAlong(2 * d, e) =
              IF e = d THEN Total(e) - 2 * Ghost - 1 .. Total(e) - Ghost - 1
                       ELSE Ghost - 1 .. Total(e) - Ghost - 1
  <1>1. PICK i \in Nat, j \in Nat : i = 2 * d - 1 /\ j = 2 * d
    BY GivenNumbers DEF Dims
  <1>2. i \in 0 .. LastFlux /\ j \in 0 .. LastFlux
    BY <1>1, GivenNumbers DEF LastFlux, Dims
  <1>3. /\ i # 0 /\ j # 0 /\ i # 2 * e /\ j # 2 * e - 1
        /\ e # d => i # 2 * e - 1 /\ j # 2 * e
    BY <1>1, GivenNumbers DEF Dims
  <1>4. /\ e = d => i = 2 * e - 1 /\ j = 2 * e
    BY <1>1
  <1>5. CASE e = d
    BY <1>1, <1>2, <1>4, <1>5, RangesOf, Zenon
  <1>6. CASE e # d
    BY <1>1, <1>2, <1>3, <1>6, RangesOf, Zenon
  <1> QED
    BY <1>5, <1>6

\* The interior, and its faces, are the two strips and what is in between.
LEMMA Parts ==
  ASSUME Setting, NEW d \in Dims, NEW v \in Int
  PROVE  /\ v \in Ghost .. Total(d) - Ghost - 1 <=>
              \/ v \in Ghost .. 2 * Ghost - 1
              \/ v \in Total(d) - 2 * Ghost .. Total(d) - Ghost - 1
              \/ v \in 2 * Ghost .. Total(d) - 2 * Ghost - 1
         /\ v \in Ghost - 1 .. Total(d) - Ghost - 1 <=>
              \/ v \in Ghost - 1 .. 2 * Ghost - 1
              \/ v \in Total(d) - 2 * Ghost - 1 .. Total(d) - Ghost - 1
              \/ v \in 2 * Ghost - 1 .. Total(d) - 2 * Ghost - 1
  <1>1. PICK g \in Nat, N \in Nat : g = Ghost /\ g > 0 /\ N = Total(d) /\ N >= 3 * g
    BY GivenNumbers
  <1>2. /\ v \in g .. N - g - 1 <=>
             v \in g .. 2 * g - 1 \/ v \in N - 2 * g .. N - g - 1 \/ v \in 2 * g .. N - 2 * g - 1
        /\ v \in g - 1 .. N - g - 1 <=>
             \/ v \in g - 1 .. 2 * g - 1 \/ v \in N - 2 * g - 1 .. N - g - 1
             \/ v \in 2 * g - 1 .. N - 2 * g - 1
    BY <1>1
  <1> QED
    BY <1>1, <1>2, Zenon

\* Each call's cells and faces are those of the interior, in any direction.
LEMMA CallsInside ==
  ASSUME Setting, NEW c \in 0 .. LastFlux, NEW d \in Dims, NEW v \in Int
  PROVE  /\ v \in UpdatedAlong(c, d) => v \in Ghost .. Total(d) - Ghost - 1
         /\ v \in FacesAlong(c, d) => v \in Ghost - 1 .. Total(d) - Ghost - 1
  <1>1. ASSUME v \in UpdatedAlong(c, d)
        PROVE  \/ v \in 2 * Ghost .. Total(d) - 2 * Ghost - 1
               \/ v \in Ghost .. 2 * Ghost - 1
               \/ v \in Total(d) - 2 * Ghost .. Total(d) - Ghost - 1
               \/ v \in Ghost .. Total(d) - Ghost - 1
    BY <1>1, RangesOf, Zenon
  <1>2. ASSUME v \in FacesAlong(c, d)
        PROVE  \/ v \in 2 * Ghost - 1 .. Total(d) - 2 * Ghost - 1
               \/ v \in Ghost - 1 .. 2 * Ghost - 1
               \/ v \in Total(d) - 2 * Ghost - 1 .. Total(d) - Ghost - 1
               \/ v \in Ghost - 1 .. Total(d) - Ghost - 1
    BY <1>2, RangesOf, Zenon
  <1> QED
    BY <1>1, <1>2, Parts, Zenon

\* The regions of all calls together are the interior: what is in no strip
\* is in the inner region, in every direction.
LEMMA RegionsCover ==
  ASSUME Setting, NEW x \in Grid
  PROVE  InteriorCell(x) <=> \E c \in 0 .. LastFlux : Within(x, Region(c))
  <1>1. \A c : Within(x, Region(c)) <=> \A d \in Dims : x[d] \in UpdatedAlong(c, d)
    BY DEF Within, Region
  <1>2. \A d \in Dims : x[d] \in Int
    BY DEF Grid, AllCells
  <1>3. ASSUME NEW c \in 0 .. LastFlux, Within(x, Region(c)) PROVE InteriorCell(x)
    BY <1>1, <1>2, <1>3, CallsInside DEF InteriorCell, Interior
  <1>4. ASSUME InteriorCell(x) PROVE \E c \in 0 .. LastFlux : Within(x, Region(c))
    <2>1. \A d \in Dims : x[d] \in Ghost .. Total(d) - Ghost - 1
      BY <1>4 DEF InteriorCell, Interior
    <2>2. CASE \E d \in Dims : x[d] \in Ghost .. 2 * Ghost - 1
      <3>1. PICK d \in Dims : x[d] \in Ghost .. 2 * Ghost - 1
        BY <2>2
      <3>2. \A e \in Dims : x[e] \in UpdatedAlong(2 * d - 1, e)
        BY <2>1, <3>1, StripRanges, Zenon
      <3>3. 2 * d - 1 \in 0 .. LastFlux
        BY StripRanges
      <3> QED
        BY <1>1, <3>2, <3>3, Zenon
    <2>3. CASE \E d \in Dims : x[d] \in Total(d) - 2 * Ghost .. Total(d) - Ghost - 1
      <3>1. PICK d \in Dims : x[d] \in Total(d) - 2 * Ghost .. Total(d) - Ghost - 1
        BY <2>3
      <3>2. \A e \in Dims : x[e] \in UpdatedAlong(2 * d, e)
        BY <2>1, <3>1, StripRanges, Zenon
      <3>3. 2 * d \in 0 .. LastFlux
        BY StripRanges
      <3> QED
        BY <1>1, <3>2, <3>3, Zenon
    <2>4. CASE \A d \in Dims : x[d] \in 2 * Ghost .. Total(d) - 2 * Ghost - 1
      <3>1. 0 \in 0 .. LastFlux
        BY GivenNumbers DEF LastFlux
      <3>2. \A d \in Dims : x[d] \in UpdatedAlong(0, d)
        BY <2>4, <3>1, RangesOf, Zenon
      <3> QED
        BY <1>1, <3>1, <3>2, Zenon
    <2> QED
      BY <1>2, <2>1, <2>2, <2>3, <2>4, Parts, Zenon
  <1> QED
    BY <1>3, <1>4

\* The faces whose flux is computed are those of interior cells: a face that
\* is in no strip of any direction is a face of the inner region, which ends
\* at the first face of the strips.
LEMMA FacesCover ==
  ASSUME Setting, NEW x \in Grid, NEW d \in Dims
  PROVE  (\E c \in 0 .. LastFlux : Within(x, FaceRegion(c, d))) <=>
           /\ x[d] \in Ghost - 1 .. Total(d) - Ghost - 1
           /\ \A a \in Dims \ {d} : x[a] \in Ghost .. Total(a) - Ghost - 1
  <1>1. ASSUME NEW c
        PROVE  Within(x, FaceRegion(c, d)) <=>
                 /\ x[d] \in FacesAlong(c, d)
                 /\ \A a \in Dims \ {d} : x[a] \in UpdatedAlong(c, a)
    <2>1. \A a \in Dims : FaceRegion(c, d)[a] = IF a = d THEN FacesAlong(c, d) ELSE UpdatedAlong(c, a)
      BY DEF FaceRegion, Region
    <2> QED
      BY <2>1, Zenon DEF Within
  <1>2. \A a \in Dims : x[a] \in Int
    BY DEF Grid, AllCells
  <1>3. ASSUME NEW c \in 0 .. LastFlux, Within(x, FaceRegion(c, d))
        PROVE  /\ x[d] \in Ghost - 1 .. Total(d) - Ghost - 1
               /\ \A a \in Dims \ {d} : x[a] \in Ghost .. Total(a) - Ghost - 1
    BY <1>1, <1>2, <1>3, CallsInside, Zenon
  <1>4. ASSUME x[d] \in Ghost - 1 .. Total(d) - Ghost - 1,
               \A a \in Dims \ {d} : x[a] \in Ghost .. Total(a) - Ghost - 1
        PROVE  \E c \in 0 .. LastFlux : Within(x, FaceRegion(c, d))
    <2>1. CASE \E a \in Dims \ {d} : x[a] \in Ghost .. 2 * Ghost - 1
      <3>1. PICK a \in Dims \ {d} : x[a] \in Ghost .. 2 * Ghost - 1
        BY <2>1
      <3>2. x[d] \in FacesAlong(2 * a - 1, d)
        BY <1>4, <3>1, StripRanges, Zenon
      <3>3. \A b \in Dims \ {d} : x[b] \in UpdatedAlong(2 * a - 1, b)
        BY <1>4, <3>1, StripRanges, Zenon
      <3>4. 2 * a - 1 \in 0 .. LastFlux
        BY StripRanges
      <3> QED
        BY <1>1, <3>2, <3>3, <3>4, Zenon
    <2>2. CASE \E a \in Dims \ {d} : x[a] \in Total(a) - 2 * Ghost .. Total(a) - Ghost - 1
      <3>1. PICK a \in Dims \ {d} : x[a] \in Total(a) - 2 * Ghost .. Total(a) - Ghost - 1
        BY <2>2
      <3>2. x[d] \in FacesAlong(2 * a, d)
        BY <1>4, <3>1, StripRanges, Zenon
      <3>3. \A b \in Dims \ {d} : x[b] \in UpdatedAlong(2 * a, b)
        BY <1>4, <3>1, StripRanges, Zenon
      <3>4. 2 * a \in 0 .. LastFlux
        BY StripRanges
      <3> QED
        BY <1>1, <3>2, <3>3, <3>4, Zenon
    <2>3. CASE x[d] \in Ghost - 1 .. 2 * Ghost - 1
      <3>1. x[d] \in FacesAlong(2 * d - 1, d)
        BY <2>3, StripRanges, Zenon
      <3>2. \A b \in Dims \ {d} : x[b] \in UpdatedAlong(2 * d - 1, b)
        BY <1>4, StripRanges, Zenon
      <3>3. 2 * d - 1 \in 0 .. LastFlux
        BY StripRanges
      <3> QED
        BY <1>1, <3>1, <3>2, <3>3, Zenon
    <2>4. CASE x[d] \in Total(d) - 2 * Ghost - 1 .. Total(d) - Ghost - 1
      <3>1. x[d] \in FacesAlong(2 * d, d)
        BY <2>4, StripRanges, Zenon
      <3>2. \A b \in Dims \ {d} : x[b] \in UpdatedAlong(2 * d, b)
        BY <1>4, StripRanges, Zenon
      <3>3. 2 * d \in 0 .. LastFlux
        BY StripRanges
      <3> QED
        BY <1>1, <3>1, <3>2, <3>3, Zenon
    <2>5. CASE /\ x[d] \in 2 * Ghost - 1 .. Total(d) - 2 * Ghost - 1
               /\ \A a \in Dims \ {d} : x[a] \in 2 * Ghost .. Total(a) - 2 * Ghost - 1
      <3>1. 0 \in 0 .. LastFlux
        BY GivenNumbers DEF LastFlux
      <3>2. x[d] \in FacesAlong(0, d) /\ \A a \in Dims \ {d} : x[a] \in UpdatedAlong(0, a)
        BY <2>5, <3>1, RangesOf, Zenon
      <3> QED
        BY <1>1, <3>1, <3>2, Zenon
    <2> QED
      BY <1>2, <1>4, <2>1, <2>2, <2>3, <2>4, <2>5, Parts, Zenon
  <1> QED
    BY <1>3, <1>4

-----------------------------------------------------------------------------
(* What the calls made so far left in the arrays.                           *)

Called == {c \in 0 .. LastFlux : c < call}

\* A cell that was in one region or in several holds one contribution, since
\* each call sets its region to zero before it adds to it.
NetOfCalls ==
  net = [x \in Grid |-> [d \in Dims |->
           IF \E c \in Called : Within(x, Region(c)) THEN 1 ELSE 0]]

WavesOfCalls ==
  waves = [x \in Grid |-> {d \in Dims : \E c \in Called : Within(x, FaceRegion(c, d))}]

DiffusedByCalls ==
  diffused = [x \in Grid |-> [d \in Dims |->
                IF call > LastFlux + d /\ x[d] \in DiffusedAlong(Total(d)) THEN 1 ELSE 0]]

IInv ==
  /\ Setting
  /\ call \in 0 .. LastCall + 1
  /\ NetOfCalls /\ WavesOfCalls /\ DiffusedByCalls

\* The numbers of the last flux call and of the last call.
LEMMA CallNumbers ==
  ASSUME Setting
  PROVE  /\ LastFlux = 2 * Dimensions /\ LastFlux \in Nat
         /\ LastCall \in Nat /\ LastCall >= LastFlux
         /\ LastCall = LastFlux \/ (LastCall = LastFlux + Dimensions /\ scheme.diffusion # 0)
         /\ scheme.diffusion = 0 => LastCall = LastFlux
         /\ scheme.diffusion # 0 => LastCall = LastFlux + Dimensions
  BY GivenNumbers DEF LastFlux, LastCall

\* At first there is nothing in them, ...
LEMMA CallsInit == Init => IInv
  <1> SUFFICES ASSUME Init PROVE IInv
    OBVIOUS
  <1>1. Setting
    BY DEF Init, Setting
  <1>2. call = 0 /\ LastFlux \in Nat /\ LastCall \in Nat
    BY <1>1, CallNumbers DEF Init
  <1>3. Called = {}
    BY <1>2 DEF Called
  <1>4. NetOfCalls
    BY <1>3 DEF Init, NetOfCalls
  <1>5. WavesOfCalls
    BY <1>3 DEF Init, WavesOfCalls
  <1>6. \A d \in Dims : ~ call > LastFlux + d
    BY <1>2 DEF Dims
  <1>7. DiffusedByCalls
    BY <1>6 DEF Init, DiffusedByCalls
  <1> QED
    BY <1>1, <1>2, <1>4, <1>5, <1>7 DEF IInv

\* ... the ranges stay the same during an application of the operator, ...
LEMMA RegionsKept ==
  ASSUME UNCHANGED <<scheme, size>>
  PROVE  /\ Ghost' = Ghost /\ Grid' = Grid
         /\ \A d \in Dims : Total(d)' = Total(d)
         /\ LastCall' = LastCall /\ Setting' = Setting
         /\ \A c : Region(c)' = Region(c)
         /\ \A c : \A d \in Dims : FaceRegion(c, d)' = FaceRegion(c, d)
  <1>1. Ghost' = Ghost /\ \A d : Total(d)' = Total(d)
    BY DEF Ghost, Total
  <1>2. Grid' = Grid
    BY <1>1 DEF Grid
  <1>3. LastCall' = LastCall /\ Setting' = Setting
    BY DEF LastCall, Setting
  <1>4. \A c, d : Start(c, d)' = Start(c, d) /\ End(c, d)' = End(c, d)
    BY <1>1 DEF Start, End
  <1>5. \A c, d : UpdatedAlong(c, d)' = UpdatedAlong(c, d) /\ FacesAlong(c, d)' = FacesAlong(c, d)
    BY <1>1, <1>4 DEF UpdatedAlong, FacesAlong
  <1>6. \A c : Region(c)' = Region(c)
    BY <1>5 DEF Region
  <1>7. \A c, d : FaceRegion(c, d)' = FaceRegion(c, d)
    BY <1>5, <1>6 DEF FaceRegion
  <1> QED
    BY <1>1, <1>2, <1>3, <1>6, <1>7

\* ... and each call adds its own.
LEMMA CallsStep == IInv /\ [Next]_vars => IInv'
  <1> SUFFICES ASSUME IInv, [Next]_vars PROVE IInv'
    OBVIOUS
  <1>1. Setting
    BY DEF IInv
  <1>2. /\ LastFlux \in Nat /\ LastCall \in Nat /\ LastCall >= LastFlux
        /\ LastCall = LastFlux \/ LastCall = LastFlux + Dimensions
        /\ Dimensions \in 1 .. 3
        /\ call \in 0 .. LastCall + 1
    BY <1>1, CallNumbers, GivenNumbers DEF IInv
  <1>3. CASE ComputeFlux
    <2>1. /\ call' = call + 1 /\ call <= LastFlux
          /\ UNCHANGED <<scheme, size>> /\ diffused' = diffused
      BY <1>3 DEF ComputeFlux
    <2>2. Setting' /\ Grid' = Grid
      BY <1>1, <2>1, RegionsKept
    <2>3. call' \in 0 .. LastCall' + 1
      BY <1>2, <2>1, RegionsKept
    <2>4. \A c : c \in Called' <=> c \in Called \/ c = call
      BY <1>2, <2>1 DEF Called, LastFlux
    <2>5. NetOfCalls'
      <3>1. net' = AddNetFlux(call, MakeZero(call, net)) /\ DOMAIN net = Grid
        BY <1>3 DEF ComputeFlux, IInv, NetOfCalls
      <3>2. \A x \in Grid : net[x] = [d \in Dims |-> IF \E c \in Called : Within(x, Region(c)) THEN 1 ELSE 0]
        BY DEF IInv, NetOfCalls
      <3>3. net' = [x \in Grid |-> IF Within(x, Region(call)) THEN [d \in Dims |-> 1] ELSE net[x]]
        BY <3>1 DEF AddNetFlux, MakeZero
      <3>4. ASSUME NEW x \in Grid
            PROVE  (IF Within(x, Region(call)) THEN [d \in Dims |-> 1] ELSE net[x]) =
                     [d \in Dims |-> IF \E c \in Called' : Within(x, Region(c)) THEN 1 ELSE 0]
        <4>1. (\E c \in Called' : Within(x, Region(c))) <=>
                 (\E c \in Called : Within(x, Region(c))) \/ Within(x, Region(call))
          BY <2>4
        <4> QED
          BY <3>2, <4>1
      <3>5. net' = [x \in Grid |-> [d \in Dims |-> IF \E c \in Called' : Within(x, Region(c)) THEN 1 ELSE 0]]
        BY <3>3, <3>4
      <3>6. \A c, x : Within(x, Region(c))' = Within(x, Region(c))
        BY <2>1, RegionsKept DEF Within
      <3> QED
        BY <2>2, <3>5, <3>6 DEF NetOfCalls
    <2>6. WavesOfCalls'
      <3>1. waves' = MaxWaves(call, waves) /\ DOMAIN waves = Grid
        BY <1>3 DEF ComputeFlux, IInv, WavesOfCalls
      <3>2. waves' = [x \in Grid |-> waves[x] \cup {d \in Dims : Within(x, FaceRegion(call, d))}]
        BY <3>1 DEF MaxWaves
      <3>3. ASSUME NEW x \in Grid
            PROVE  waves[x] \cup {d \in Dims : Within(x, FaceRegion(call, d))} =
                     {d \in Dims : \E c \in Called' : Within(x, FaceRegion(c, d))}
        <4>1. waves[x] = {d \in Dims : \E c \in Called : Within(x, FaceRegion(c, d))}
          BY DEF IInv, WavesOfCalls
        <4> QED
          BY <2>4, <4>1
      <3>4. waves' = [x \in Grid |-> {d \in Dims : \E c \in Called' : Within(x, FaceRegion(c, d))}]
        BY <3>2, <3>3
      <3>5. \A c, x : \A d \in Dims : Within(x, FaceRegion(c, d))' = Within(x, FaceRegion(c, d))
        BY <2>1, RegionsKept DEF Within
      <3> QED
        BY <2>2, <3>4, <3>5 DEF WavesOfCalls
    <2>7. DiffusedByCalls'
      <3>1. \A d \in Dims : (call' > LastFlux + d) = (call > LastFlux + d)
        BY <1>2, <2>1 DEF Dims
      <3>2. diffused = [x \in Grid |-> [d \in Dims |->
              IF call > LastFlux + d /\ x[d] \in DiffusedAlong(Total(d)) THEN 1 ELSE 0]]
        BY DEF IInv, DiffusedByCalls
      <3>3. \A d \in Dims : Total(d)' = Total(d)
        BY <2>1, RegionsKept
      <3> QED
        BY <2>1, <2>2, <3>1, <3>2, <3>3 DEF DiffusedByCalls, LastFlux
    <2> QED
      BY <2>2, <2>3, <2>5, <2>6, <2>7 DEF IInv
  <1>4. CASE ApplyDiffusion
    <2>1. /\ call' = call + 1 /\ call \in LastFlux + 1 .. LastCall
          /\ UNCHANGED <<scheme, size, net, waves>>
      BY <1>4 DEF ApplyDiffusion
    <2>2. Setting' /\ Grid' = Grid
      BY <1>1, <2>1, RegionsKept
    <2>3. call' \in 0 .. LastCall' + 1
      BY <1>2, <2>1, RegionsKept
    <2>4. Called' = Called
      BY <1>2, <2>1 DEF Called, LastFlux
    <2>5. NetOfCalls' /\ WavesOfCalls'
      <3>1. /\ \A c, x : Within(x, Region(c))' = Within(x, Region(c))
            /\ \A c, x : \A d \in Dims : Within(x, FaceRegion(c, d))' = Within(x, FaceRegion(c, d))
        BY <2>1, RegionsKept DEF Within
      <3>2. NetOfCalls'
        BY <2>1, <2>2, <2>4, <3>1 DEF IInv, NetOfCalls
      <3>3. WavesOfCalls'
        BY <2>1, <2>2, <2>4, <3>1 DEF IInv, WavesOfCalls
      <3> QED
        BY <3>2, <3>3
    <2>6. DiffusedByCalls'
      <3>1. PICK e \in Dims : e = call - LastFlux
        BY <1>2, <2>1 DEF Dims
      <3>2. /\ diffused = [x \in Grid |-> [d \in Dims |->
                 IF call > LastFlux + d /\ x[d] \in DiffusedAlong(Total(d)) THEN 1 ELSE 0]]
            /\ DOMAIN diffused = Grid
        BY DEF IInv, DiffusedByCalls
      <3>3. diffused' = [x \in Grid |->
              IF x[e] \in DiffusedAlong(Total(e)) THEN [diffused[x] EXCEPT ![e] = @ + 1] ELSE diffused[x]]
        BY <1>4, <3>1, <3>2 DEF ApplyDiffusion
      <3>4. \A d \in Dims : /\ call' > LastFlux + d <=> call > LastFlux + d \/ d = e
                            /\ d = e => ~ call > LastFlux + d
        BY <1>2, <2>1, <3>1 DEF Dims
      <3>5. ASSUME NEW x \in Grid
            PROVE  (IF x[e] \in DiffusedAlong(Total(e)) THEN [diffused[x] EXCEPT ![e] = @ + 1]
                                                         ELSE diffused[x]) =
                     [d \in Dims |->
                        IF call' > LastFlux + d /\ x[d] \in DiffusedAlong(Total(d)) THEN 1 ELSE 0]
        <4>1. diffused[x] = [d \in Dims |->
                IF call > LastFlux + d /\ x[d] \in DiffusedAlong(Total(d)) THEN 1 ELSE 0]
          BY <3>2
        <4>2. diffused[x][e] + 1 = 1
          BY <3>1, <3>4, <4>1
        <4> QED
          BY <3>4, <4>1, <4>2
      <3>6. diffused' = [x \in Grid |-> [d \in Dims |->
              IF call' > LastFlux + d /\ x[d] \in DiffusedAlong(Total(d)) THEN 1 ELSE 0]]
        BY <3>3, <3>5
      <3>7. \A d \in Dims : Total(d)' = Total(d)
        BY <2>1, RegionsKept
      <3> QED
        BY <2>2, <3>6, <3>7 DEF DiffusedByCalls, LastFlux
    <2> QED
      BY <2>2, <2>3, <2>5, <2>6 DEF IInv
  <1>5. CASE UNCHANGED vars
    <2>1. UNCHANGED <<scheme, size, call, net, waves, diffused>>
      BY <1>5 DEF vars
    <2>2. Setting' /\ Grid' = Grid /\ LastCall' = LastCall /\ Called' = Called
      BY <1>1, <2>1, RegionsKept DEF Called, LastFlux
    <2>3. /\ \A c, x : Within(x, Region(c))' = Within(x, Region(c))
          /\ \A c, x : \A d \in Dims : Within(x, FaceRegion(c, d))' = Within(x, FaceRegion(c, d))
          /\ \A d \in Dims : Total(d)' = Total(d)
      BY <2>1, RegionsKept DEF Within
    <2>4. NetOfCalls' /\ WavesOfCalls'
      BY <2>1, <2>2, <2>3 DEF IInv, NetOfCalls, WavesOfCalls
    <2>5. DiffusedByCalls'
      BY <2>1, <2>2, <2>3 DEF IInv, DiffusedByCalls, LastFlux
    <2> QED
      BY <2>1, <2>2, <2>4, <2>5 DEF IInv
  <1> QED
    BY <1>3, <1>4, <1>5 DEF Next

-----------------------------------------------------------------------------
(* Consequences.                                                            *)

\* Sums of contributions are numbers.
LEMMA FluxTypes == IInv => TypeOK
  <1> SUFFICES ASSUME IInv PROVE TypeOK
    OBVIOUS
  <1>1. net \in [Grid -> [Dims -> Nat]]
    BY DEF IInv, NetOfCalls
  <1>2. waves \in [Grid -> SUBSET Dims]
    BY DEF IInv, WavesOfCalls
  <1>3. diffused \in [Grid -> [Dims -> Nat]]
    BY DEF IInv, DiffusedByCalls
  <1> QED
    BY <1>1, <1>2, <1>3 DEF IInv, Setting, TypeOK

\* At the end all regions and all directions were gone through.
LEMMA AllCalled ==
  ASSUME IInv, call = LastCall + 1
  PROVE  /\ Called = 0 .. LastFlux
         /\ \A d \in Dims : call > LastFlux + d <=> scheme.diffusion # 0
  <1>1. Setting
    BY DEF IInv
  <1>2. PICK f \in Nat, n \in 1 .. 3 :
          /\ f = LastFlux /\ n = Dimensions
          /\ LastCall = IF scheme.diffusion = 0 THEN f ELSE f + n
    BY <1>1, CallNumbers, GivenNumbers
  <1>3. call = IF scheme.diffusion = 0 THEN f + 1 ELSE f + n + 1
    BY <1>2
  <1>4. \A c \in 0 .. f : c < call
    BY <1>2, <1>3
  <1>5. \A d \in 1 .. n : call > f + d <=> scheme.diffusion # 0
    BY <1>2, <1>3
  <1> QED
    BY <1>2, <1>4, <1>5 DEF Called, Dims

\* At the end what was in a region is the interior.
LEMMA InteriorOnce == IInv => EachCellOnce
  <1> SUFFICES ASSUME IInv, call = LastCall + 1, NEW x \in Grid, NEW d \in Dims
               PROVE  IF InteriorCell(x)
                      THEN net[x][d] = 1 /\ diffused[x][d] = (IF scheme.diffusion = 0 THEN 0 ELSE 1)
                      ELSE net[x][d] = 0
    BY DEF EachCellOnce, IInv, NetOfCalls
  <1>1. Setting
    BY DEF IInv
  <1>2. net[x][d] = IF \E c \in 0 .. LastFlux : Within(x, Region(c)) THEN 1 ELSE 0
    BY AllCalled DEF IInv, NetOfCalls
  <1>3. diffused[x][d] =
          IF scheme.diffusion # 0 /\ x[d] \in DiffusedAlong(Total(d)) THEN 1 ELSE 0
    <2>1. diffused[x][d] =
            IF call > LastFlux + d /\ x[d] \in DiffusedAlong(Total(d)) THEN 1 ELSE 0
      BY DEF IInv, DiffusedByCalls
    <2> QED
      BY <2>1, AllCalled, Zenon
  <1>4. InteriorCell(x) => x[d] \in DiffusedAlong(Total(d))
    BY <1>1, GivenNumbers DEF InteriorCell, Interior, DiffusedAlong
  <1>5. InteriorCell(x) <=> \E c \in 0 .. LastFlux : Within(x, Region(c))
    BY <1>1, RegionsCover
  <1> QED
    BY <1>2, <1>3, <1>4, <1>5, Zenon

\* At the end the faces that were gone through are those of the interior.
LEMMA FacesOfInterior == IInv => WaveSpeedOfAllFaces
  <1> SUFFICES ASSUME IInv, call = LastCall + 1, NEW x \in Grid, NEW d \in Dims
               PROVE  d \in waves[x] <=> InteriorCell(x) \/
                        (x[d] + 1 \in AllCells(Total(d)) /\ InteriorCell([x EXCEPT ![d] = @ + 1]))
    BY DEF WaveSpeedOfAllFaces, IInv, WavesOfCalls
  <1>1. Setting
    BY DEF IInv
  <1>2. waves[x] = {a \in Dims : \E c \in 0 .. LastFlux : Within(x, FaceRegion(c, a))}
    BY AllCalled DEF IInv, WavesOfCalls
  <1>3. d \in waves[x] <=>
          /\ x[d] \in Ghost - 1 .. Total(d) - Ghost - 1
          /\ \A a \in Dims \ {d} : x[a] \in Ghost .. Total(a) - Ghost - 1
    BY <1>1, <1>2, FacesCover, Zenon
  <1>4. PICK g \in Nat, N \in Nat, v \in Int :
          g = Ghost /\ g > 0 /\ N = Total(d) /\ N >= 3 * g /\ v = x[d]
    BY <1>1, GivenNumbers DEF Grid, AllCells
  <1>5. InteriorCell(x) <=> /\ v \in g .. N - g - 1
                            /\ \A a \in Dims \ {d} : x[a] \in Ghost .. Total(a) - Ghost - 1
    BY <1>4, Zenon DEF InteriorCell, Interior
  <1>6. /\ [x EXCEPT ![d] = @ + 1][d] = v + 1
        /\ \A a \in Dims \ {d} : [x EXCEPT ![d] = @ + 1][a] = x[a]
    BY <1>4 DEF Grid
  <1>7. InteriorCell([x EXCEPT ![d] = @ + 1]) <=>
          /\ v + 1 \in g .. N - g - 1
          /\ \A a \in Dims \ {d} : x[a] \in Ghost .. Total(a) - Ghost - 1
    <2>1. PICK y : y = [x EXCEPT ![d] = @ + 1]
      OBVIOUS
    <2>2. y[d] = v + 1 /\ \A a \in Dims \ {d} : y[a] = x[a]
      BY <1>6, <2>1
    <2> QED
      BY <1>4, <2>1, <2>2, Zenon DEF InteriorCell, Interior
  <1>8. /\ v \in g - 1 .. N - g - 1 <=> v \in g .. N - g - 1 \/ v + 1 \in g .. N - g - 1
        /\ v + 1 \in g .. N - g - 1 => v + 1 \in 0 .. N - 1
    BY <1>4
  <1> QED
    BY <1>3, <1>4, <1>5, <1>7, <1>8, Zenon DEF AllCells

\* Half a stencil and a window reach no further than the ghost width.
LEMMA InnerInside == IInv => InnerDependsOnInterior
  <1> SUFFICES ASSUME IInv, NEW d \in Dims, NEW x \in FacesAlong(0, d),
                      NEW y \in Dependence(scheme, x)
               PROVE  y \in Interior(Total(d), Ghost)
    BY DEF InnerDependsOnInterior
  <1>1. Setting
    BY DEF IInv
  <1>2. PICK g \in Nat, N \in Nat : g = Ghost /\ g > 0 /\ N = Total(d) /\ N >= 3 * g
    BY <1>1, GivenNumbers
  <1>3. PICK h \in 1 .. 3, k \in 1 .. 4 : h = scheme.half /\ k = scheme.order /\ g >= h + k - 1
    BY <1>1, <1>2, GivenNumbers, BuiltScheme, GhostsOf DEF Setting, Ghost
  <1>4. x \in 2 * g - 1 .. N - 2 * g - 1
    <2>1. 0 \in 0 .. LastFlux
      BY <1>1, CallNumbers
    <2> QED
      BY <1>1, <1>2, <2>1, RangesOf, Zenon
  <1>5. PICK p : p \in Stencil(scheme, x) /\ y \in Window(scheme, p)
    BY DEF Dependence
  <1>6. p \in x - (h - 1) .. x + h
    BY <1>3, <1>5 DEF Stencil
  <1>7. y \in p - (k - 1) .. p + (k - 1)
    BY <1>3, <1>5 DEF Window
  <1>8. y \in g .. N - g - 1
    BY <1>2, <1>3, <1>4, <1>6, <1>7
  <1> QED
    BY <1>2, <1>8 DEF Interior

\* The windows of a range that begins a ghost width inside stay inside.
LEMMA InnerWindows == IInv => InnerTouchesInterior
  <1> SUFFICES ASSUME IInv, call = 0, Ranged(scheme), NEW d \in Dims,
                      NEW y \in Touched(scheme, Total(d), Start(0, d), End(0, d))
               PROVE  y \in Interior(Total(d), Ghost)
    BY DEF InnerTouchesInterior
  <1>1. Setting
    BY DEF IInv
  <1>2. PICK g \in Nat, N \in Nat : g = Ghost /\ g > 0 /\ N = Total(d) /\ N >= 3 * g
    BY <1>1, GivenNumbers
  <1>3. PICK k \in 1 .. 4 : k = scheme.order /\ g >= k
    BY <1>1, <1>2, GivenNumbers, BuiltScheme, GhostsOf DEF Setting, Ghost
  <1>4. Start(0, d) = g /\ End(0, d) = -g
    BY <1>2 DEF Start, End
  <1>5. PICK p : p \in Filled(scheme, N, g, -g) /\ y \in Window(scheme, p)
    BY <1>2, <1>4 DEF Touched
  <1>6. p \in k - 1 + g .. N - (k - 1) + (-g) - 1
    BY <1>3, <1>5 DEF Filled, FilledInRange
  <1>7. y \in p - (k - 1) .. p + (k - 1)
    BY <1>3, <1>5 DEF Window
  <1>8. y \in g .. N - g - 1
    BY <1>2, <1>3, <1>6, <1>7
  <1> QED
    BY <1>2, <1>8 DEF Interior

\* What a call of a scheme reconstructs, along and across, is what its fluxes
\* need: for each way of going through the cells.
LEMMA ReconstructedIsEnough ==
  ASSUME NEW s \in Built, Sound(s), NEW N \in Nat, N >= 3 * Ghosts(s),
         NEW from \in Nat, NEW to \in Int, to <= 0
  PROVE  /\ Touched(s, N, from, to) \subseteq AllCells(N)
         /\ \A x \in Ghosts(s) - 1 + from .. N - Ghosts(s) + to - 1 :
              Stencil(s, x) \subseteq Filled(s, N, from, to)
         /\ Ghosts(s) + from .. N - Ghosts(s) + to - 1 \subseteq FilledAcross(s, N, from, to)
         /\ s.kind = "eno" =>
              /\ FilledAcross(s, N, from, to) \subseteq DifferencesAcross(s, N, from, to)
              /\ \A x \in Filled(s, N, from, to), level \in 0 .. s.order - 2 :
                   DifferencesRead(x) \subseteq Differences(s, N, level, from, to)
  <1>1. PICK g \in Nat, h \in 1 .. 3, k \in 1 .. 4 :
          /\ g = Ghosts(s) /\ h = s.half /\ k = s.order
          /\ g >= h + k - 1 /\ g >= k /\ g > 0
    BY BuiltScheme, GhostsOf
  <1>2. N >= 3 * g
    BY <1>1
  <1>3. CASE Ranged(s)
    <2>1. h = 1
      BY <1>1, <1>3 DEF Sound, Ranged
    <2>2. Filled(s, N, from, to) = k - 1 + from .. N - (k - 1) + to - 1
      BY <1>1, <1>3 DEF Filled, FilledInRange
    <2>3. Touched(s, N, from, to) \subseteq AllCells(N)
      <3> SUFFICES ASSUME NEW p \in k - 1 + from .. N - (k - 1) + to - 1,
                          NEW y \in p - (k - 1) .. p + (k - 1)
                   PROVE  y \in 0 .. N - 1
        BY <1>1, <2>2 DEF Touched, Window, AllCells
      <3> QED
        BY <1>1
    <2>4. ASSUME NEW x \in g - 1 + from .. N - g + to - 1
          PROVE  Stencil(s, x) \subseteq Filled(s, N, from, to)
      <3>1. x - (h - 1) .. x + h \subseteq k - 1 + from .. N - (k - 1) + to - 1
        BY <1>1, <2>1
      <3> QED
        BY <1>1, <2>2, <3>1 DEF Stencil
    <2>5. g + from .. N - g + to - 1 \subseteq FilledAcross(s, N, from, to)
      <3>1. CASE s.kind = "eno"
        <4>1. g + from .. N - g + to - 1 \subseteq k + from .. N - k + to - 1
          BY <1>1
        <4>2. FilledAcross(s, N, from, to) = k + from .. N - k + to - 1
          BY <1>1, <3>1 DEF FilledAcross, EnoAcross
        <4> QED
          BY <4>1, <4>2
      <3>2. CASE s.kind = "limiter"
        <4>1. PICK m \in Int : /\ m = (IF s.platform = "cpu" THEN k ELSE k - 1) /\ m <= g
          BY <1>1
        <4>2. g + from .. N - g + to - 1 \subseteq m + from .. N - m + to - 1
          BY <1>1, <4>1
        <4>3. FilledAcross(s, N, from, to) = m + from .. N - m + to - 1
          BY <1>1, <3>2, <4>1 DEF FilledAcross, LimiterAcross
        <4> QED
          BY <4>2, <4>3
      <3> QED
        BY <1>3, <3>1, <3>2 DEF Ranged
    <2>6. ASSUME s.kind = "eno"
          PROVE  /\ FilledAcross(s, N, from, to) \subseteq DifferencesAcross(s, N, from, to)
                 /\ \A x \in Filled(s, N, from, to), level \in 0 .. k - 2 :
                      DifferencesRead(x) \subseteq Differences(s, N, level, from, to)
      <3>1. k + from .. N - k + to - 1 \subseteq k + from .. N - (k - 1) + to - 1
        BY <1>1
      <3>2. FilledAcross(s, N, from, to) \subseteq DifferencesAcross(s, N, from, to)
        BY <1>1, <2>6, <3>1 DEF FilledAcross, EnoAcross, DifferencesAcross
      <3>3. ASSUME NEW x \in k - 1 + from .. N - (k - 1) + to - 1, NEW level \in 0 .. k - 2
            PROVE  DifferencesRead(x) \subseteq Differences(s, N, level, from, to)
        BY <1>1, <3>3 DEF DifferencesRead, Differences
      <3> QED
        BY <2>2, <3>2, <3>3
    <2> QED
      BY <1>1, <2>3, <2>4, <2>5, <2>6
  <1>4. CASE ~ Ranged(s)
    <2>1. s.kind \in {"copy", "weno"} /\ (h = 1 \/ k = 1)
      BY <1>1, <1>4, BuiltScheme DEF Sound, Ranged
    <2>2. Filled(s, N, from, to) = k - 1 .. N - (k - 1) - 1
      BY <1>1, <1>4 DEF Filled, FilledWhole
    <2>3. Touched(s, N, from, to) \subseteq AllCells(N)
      <3> SUFFICES ASSUME NEW p \in k - 1 .. N - (k - 1) - 1,
                          NEW y \in p - (k - 1) .. p + (k - 1)
                   PROVE  y \in 0 .. N - 1
        BY <1>1, <2>2 DEF Touched, Window, AllCells
      <3> QED
        BY <1>1
    <2>4. ASSUME NEW x \in g - 1 + from .. N - g + to - 1
          PROVE  Stencil(s, x) \subseteq Filled(s, N, from, to)
      <3>1. x - (h - 1) .. x + h \subseteq k - 1 .. N - (k - 1) - 1
        BY <1>1
      <3> QED
        BY <1>1, <2>2, <3>1 DEF Stencil
    <2>5. g + from .. N - g + to - 1 \subseteq FilledAcross(s, N, from, to)
      <3>1. FilledAcross(s, N, from, to) = 0 .. N - 1
        BY <2>1 DEF FilledAcross
      <3>2. g + from .. N - g + to - 1 \subseteq 0 .. N - 1
        BY <1>1
      <3> QED
        BY <3>1, <3>2
    <2> QED
      BY <1>1, <2>1, <2>3, <2>4, <2>5
  <1> QED
    BY <1>3, <1>4

\* Every call reconstructs enough for its own fluxes.
LEMMA FilledByCall == IInv => FacesAreFilled
  <1> SUFFICES ASSUME IInv, call <= LastFlux, NEW d \in Dims
               PROVE  LET from(a) == Start(call, a)
                          to(a)   == End(call, a)
                          filled  == Filled(scheme, Total(d), from(d), to(d))
                      IN  /\ Touched(scheme, Total(d), from(d), to(d)) \subseteq AllCells(Total(d))
                          /\ \A x \in FacesAlong(call, d) : Stencil(scheme, x) \subseteq filled
                          /\ \A a \in Dims \ {d} :
                               UpdatedAlong(call, a)
                                 \subseteq FilledAcross(scheme, Total(a), from(a), to(a))
                          /\ scheme.kind = "eno" =>
                               /\ \A a \in Dims \ {d} :
                                    FilledAcross(scheme, Total(a), from(a), to(a))
                                      \subseteq DifferencesAcross(scheme, Total(a), from(a), to(a))
                               /\ \A x \in filled, level \in 0 .. scheme.order - 2 :
                                    DifferencesRead(x)
                                      \subseteq Differences(scheme, Total(d), level, from(d), to(d))
    BY DEF FacesAreFilled
  <1>1. Setting /\ call \in Nat
    BY CallNumbers DEF IInv
  <1>2. call \in 0 .. LastFlux
    BY <1>1, CallNumbers
  <1>3. /\ scheme \in Built /\ Sound(scheme)
        /\ \A a \in Dims : Total(a) \in Nat /\ Total(a) >= 3 * Ghosts(scheme)
    BY <1>1, GivenNumbers DEF Setting, Ghost
  <1>4. \A a \in Dims :
          /\ Start(call, a) \in Nat /\ End(call, a) \in Int /\ End(call, a) <= 0
          /\ UpdatedAlong(call, a) =
               Ghosts(scheme) + Start(call, a) .. Total(a) - Ghosts(scheme) + End(call, a) - 1
          /\ FacesAlong(call, a) =
               Ghosts(scheme) - 1 + Start(call, a) .. Total(a) - Ghosts(scheme) + End(call, a) - 1
    BY <1>1, <1>2, RangesOf DEF Ghost
  <1>5. ASSUME NEW a \in Dims
        PROVE  /\ Touched(scheme, Total(a), Start(call, a), End(call, a)) \subseteq AllCells(Total(a))
               /\ \A x \in FacesAlong(call, a) :
                    Stencil(scheme, x) \subseteq Filled(scheme, Total(a), Start(call, a), End(call, a))
               /\ UpdatedAlong(call, a)
                    \subseteq FilledAcross(scheme, Total(a), Start(call, a), End(call, a))
               /\ scheme.kind = "eno" =>
                    /\ FilledAcross(scheme, Total(a), Start(call, a), End(call, a))
                         \subseteq DifferencesAcross(scheme, Total(a), Start(call, a), End(call, a))
                    /\ \A x \in Filled(scheme, Total(a), Start(call, a), End(call, a)),
                          level \in 0 .. scheme.order - 2 :
                         DifferencesRead(x)
                           \subseteq Differences(scheme, Total(a), level, Start(call, a), End(call, a))
    <2>1. PICK s \in Built, N \in Nat, from \in Nat, to \in Int :
            /\ s = scheme /\ N = Total(a) /\ from = Start(call, a) /\ to = End(call, a)
            /\ Sound(s) /\ N >= 3 * Ghosts(s) /\ to <= 0
      BY <1>3, <1>4
    <2>2. /\ Touched(s, N, from, to) \subseteq AllCells(N)
          /\ \A x \in Ghosts(s) - 1 + from .. N - Ghosts(s) + to - 1 :
               Stencil(s, x) \subseteq Filled(s, N, from, to)
          /\ Ghosts(s) + from .. N - Ghosts(s) + to - 1 \subseteq FilledAcross(s, N, from, to)
          /\ s.kind = "eno" =>
               /\ FilledAcross(s, N, from, to) \subseteq DifferencesAcross(s, N, from, to)
               /\ \A x \in Filled(s, N, from, to), level \in 0 .. s.order - 2 :
                    DifferencesRead(x) \subseteq Differences(s, N, level, from, to)
      BY <2>1, ReconstructedIsEnough
    <2> QED
      BY <1>4, <2>1, <2>2, Zenon
  <1> QED
    BY <1>5, Zenon

\* The contributions, wave speeds and diffusion that the calls leave in the
\* arrays have their types, for every scheme and size.
THEOREM FluxTypeCorrect == Spec => []TypeOK
  BY CallsInit, CallsStep, FluxTypes, PTL DEF Spec

\* When the operator returns, each interior cell holds the net flux of every
\* direction once, whatever the overlap of the regions, and no ghost cell has
\* one; for every scheme, any number of ghost cells and every block that is
\* large enough for the exchange.
THEOREM EachCellComputedOnce == Spec => []EachCellOnce
  BY CallsInit, CallsStep, InteriorOnce, PTL DEF Spec

\* The wave speed is the largest of exactly the faces of interior cells: no
\* region's faces are lost and none between ghost cells comes in.
THEOREM WaveSpeedComplete == Spec => []WaveSpeedOfAllFaces
  BY CallsInit, CallsStep, FacesOfInterior, PTL DEF Spec

\* The fluxes that are computed during the exchange depend on interior cells
\* only: the ghost cells are wide enough for half a flux and the
\* reconstruction of its outermost cell.
THEOREM InnerIndependent == Spec => []InnerDependsOnInterior
  BY CallsInit, CallsStep, InnerInside, PTL DEF Spec

\* A reconstruction that honours its range reads no ghost cell meanwhile.
THEOREM InnerDoesNotRace == Spec => []InnerTouchesInterior
  BY CallsInit, CallsStep, InnerWindows, PTL DEF Spec

\* Every call computes its fluxes from what its own reconstruction filled,
\* along its direction and across, and reads inside the arrays.
THEOREM FluxesOfOwnCall == Spec => []FacesAreFilled
  BY CallsInit, CallsStep, FilledByCall, PTL DEF Spec
=============================================================================
