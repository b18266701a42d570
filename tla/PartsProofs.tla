----------------------------- MODULE PartsProofs -----------------------------
(***************************************************************************)
(* Proofs about the sequential parts: the image processor, for every size  *)
(* of upload and every bound; the configuration, for every set of values;  *)
(* the two stores, for every sequence of calls; and the circuit breaker.   *)
(***************************************************************************)
EXTENDS Images, Config, Stores, Breaker, Integers, FiniteSetTheorems, TLAPS

-----------------------------------------------------------------------------
(***************************************************************************)
(* The image processor.                                                    *)
(***************************************************************************)

\* Integer division: the quotient is the largest number that fits.
LEMMA Quotient ==
    ASSUME NEW a \in Nat, NEW b \in Nat \ {0}
    PROVE  /\ a \div b \in Nat
           /\ (a \div b) * b <= a
           /\ a < (a \div b) * b + b
    BY SMT

\* Order and multiplication, which the solver does not combine by itself.
LEMMA TimesMonotone ==
    ASSUME NEW a \in Nat, NEW b \in Nat, NEW c \in Nat, a <= b
    PROVE  a * c <= b * c /\ c * a <= c * b
    BY SMT

\* A strict inequality survives division.
LEMMA TimesReflects ==
    ASSUME NEW a \in Nat, NEW b \in Nat, NEW c \in Nat \ {0}, a * c < b * c
    PROVE  a < b
    <1> SUFFICES ASSUME b <= a PROVE FALSE OBVIOUS
    <1> QED BY TimesMonotone, SMT

\* The shorter side of a picture scaled down to max: from long and short, the sides of
\* the source.
LEMMA ShortSide ==
    ASSUME NEW long \in Nat \ {0}, NEW short \in Nat \ {0}, NEW max \in Nat \ {0},
           short <= long, max < long
    PROVE  LET side == AtLeastOne((short * max) \div long)
           IN  /\ side \in 1..short
               /\ side <= max
               /\ Distance(max * short, side * long) < long
               /\ Distance(side * long, max * short) < long
    <1> DEFINE a == short * max
               q == a \div long
               side == AtLeastOne(q)
    <1> SUFFICES /\ side \in 1..short
                 /\ side <= max
                 /\ Distance(max * short, side * long) < long
                 /\ Distance(side * long, max * short) < long
        OBVIOUS
    <1>1. a \in Nat /\ a > 0 BY SMT
    <1>2. q \in Nat /\ q * long <= a /\ a < q * long + long BY <1>1, Quotient
    <1> HIDE DEF q
    <1>3. q <= short /\ q <= max
      <2>1. a <= short * long /\ a <= max * long
        BY TimesMonotone, SMT
      <2>2. q * long <= short * long /\ q * long <= max * long
        BY <1>1, <1>2, <2>1, SMT
      <2> QED
        <3>1. ~(short < q)
          <4> SUFFICES ASSUME short < q PROVE FALSE OBVIOUS
          <4>1. (short + 1) * long <= q * long BY <1>2, TimesMonotone, SMT
          <4>2. (short + 1) * long = short * long + long BY SMT
          <4> QED BY <2>2, <4>1, <4>2, <1>2, SMT
        <3>2. ~(max < q)
          <4> SUFFICES ASSUME max < q PROVE FALSE OBVIOUS
          <4>1. (max + 1) * long <= q * long BY <1>2, TimesMonotone, SMT
          <4>2. (max + 1) * long = max * long + long BY SMT
          <4> QED BY <2>2, <4>1, <4>2, <1>2, SMT
        <3> QED BY <3>1, <3>2, <1>2, SMT
  <1>4. side = IF q < 1 THEN 1 ELSE q BY DEF AtLeastOne, q
  <1>5. max * short = a BY SMT
  <1>6. CASE q < 1
    <2>1. q = 0 /\ side = 1 BY <1>2, <1>4, <1>6, SMT
    <2>2. q * long = 0 /\ side * long = long BY <2>1, SMT
    <2> HIDE DEF a
    <2>3. 0 < a /\ a < long BY <1>1, <1>2, <2>2, SMT
    <2> QED BY <2>1, <2>2, <2>3, <1>5, SMT DEF Distance
  <1>7. CASE q >= 1
    <2>1. side = q BY <1>2, <1>4, <1>7, SMT
    <2> DEFINE p == q * long
    <2>2. p \in Nat /\ p <= a /\ a < p + long BY <1>2, SMT
    <2> HIDE DEF a, p
    <2>3. Distance(a, p) < long /\ Distance(p, a) < long
      BY <1>1, <2>2, SMT DEF Distance
    <2>4. side * long = p BY <2>1 DEF p
    <2> QED BY <2>1, <2>3, <2>4, <1>2, <1>3, <1>5, <1>7, SMT
  <1> QED BY <1>2, <1>6, <1>7, SMT

\* Resize of any picture with pixels gives a scaled picture.
LEMMA ResizeScales ==
    ASSUME NEW max \in Nat \ {0}, source.width \in Nat \ {0}, source.height \in Nat \ {0}
    PROVE  Scaled(Resize(source, max), max)
    <1> DEFINE w == source.width
               h == source.height
               pic == Resize(source, max)
    <1>1. CASE w <= max /\ h <= max
      <2>1. pic.width = w /\ pic.height = h BY <1>1 DEF Resize, Sized
      <2>2. Distance(w * h, h * w) = 0 BY SMT DEF Distance
      <2>3. Distance(pic.width * h, pic.height * w) = 0 BY <2>1, <2>2
      <2> QED BY <1>1, <2>1, <2>3, SMT DEF Scaled, Larger
    <1>2. CASE ~(w <= max /\ h <= max) /\ w >= h
      <2> DEFINE side == AtLeastOne((h * max) \div w)
      <2>1. pic.width = max /\ pic.height = side BY <1>2 DEF Resize, Sized
      <2>2. max < w /\ h <= w BY <1>2, SMT
      <2>3. side \in 1..h /\ side <= max /\ Distance(max * h, side * w) < w
        BY <2>2, ShortSide
      <2> HIDE DEF side
      <2> QED BY <2>1, <2>2, <2>3, SMT DEF Scaled, Larger
    <1>3. CASE ~(w <= max /\ h <= max) /\ ~(w >= h)
      <2> DEFINE side == AtLeastOne((w * max) \div h)
      <2>1. pic.width = side /\ pic.height = max BY <1>3 DEF Resize, Sized
      <2>2. max < h /\ w <= h BY <1>3, SMT
      <2>3. side \in 1..w /\ side <= max /\ Distance(side * h, max * w) < h
        BY <2>2, ShortSide
      <2> HIDE DEF side
      <2> QED BY <2>1, <2>2, <2>3, <1>3, SMT DEF Scaled, Larger
    <1> QED BY <1>1, <1>2, <1>3

\* What Process returned is what it returns for the last upload.
ImagesInv ==
    /\ source.width \in Nat
    /\ source.height \in Nat
    /\ result = Process(source)

\* What Process returned stays what it returns for the upload, in every reachable state.
LEMMA ImagesInvariant == ImagesSpec => []ImagesInv
    <1>1. ImagesInit => ImagesInv
      BY ImagesAssumption, SMT
      DEF ImagesInit, ImagesInv, NoUpload, NoPicture, Process, Accepted, Decodes
    <1>2. ImagesInv /\ [ImagesNext]_imageVars => ImagesInv'
      <2> SUFFICES ASSUME ImagesInv, [ImagesNext]_imageVars PROVE ImagesInv'
        OBVIOUS
      <2>1. CASE Upload
        <3> PICK format \in Formats, intact \in BOOLEAN, w \in Sizes, h \in Sizes :
              /\ source' = [format |-> format, intact |-> intact, width |-> w, height |-> h]
              /\ result' = Process([format |-> format, intact |-> intact,
                                    width |-> w, height |-> h])
          BY <2>1 DEF Upload
        <3>1. source'.width = w /\ source'.height = h OBVIOUS
        <3> QED BY <3>1, ImagesAssumption DEF ImagesInv, Process, Accepted, Decodes
      <2>2. CASE UploadAgain
        <3>1. Accepted(source) /\ result.original = Resize(source, MaxOriginalSize)
          BY <2>2 DEF UploadAgain, ImagesInv, Process, NoPicture
        <3>2. source.width \in Nat \ {0} /\ source.height \in Nat \ {0}
          BY <3>1, ImagesAssumption, SMT DEF Accepted
        <3>3. Scaled(result.original, MaxOriginalSize)
          BY <3>1, <3>2, ResizeScales, ImagesAssumption
        <3>4. result.original.width \in Nat /\ result.original.height \in Nat
          BY <3>2, <3>3, SMT DEF Scaled
        <3>5. source'.width = result.original.width /\ source'.height = result.original.height
          BY <2>2 DEF UploadAgain
        <3>6. result' = Process(source)'
          BY <2>2 DEF UploadAgain, Process, Accepted, Decodes
        <3> QED BY <3>4, <3>5, <3>6 DEF ImagesInv
      <2>3. CASE UNCHANGED imageVars
        BY <2>3 DEF ImagesInv, imageVars, Process, Accepted, Decodes
      <2> QED BY <2>1, <2>2, <2>3 DEF ImagesNext
    <1> QED BY <1>1, <1>2, PTL DEF ImagesSpec

\* Every avatar is its upload, scaled: for every bound and every size of picture.
THEOREM AvatarScaled == ImagesSpec => []AvatarIsScaled
    <1>1. ImagesInv => AvatarIsScaled
      <2> SUFFICES ASSUME ImagesInv, ~result.error PROVE AvatarIsScaled
        BY DEF AvatarIsScaled
      <2>1. /\ Accepted(source)
            /\ result.original = Resize(source, MaxOriginalSize)
            /\ result.thumb = Resize(source, ThumbSize)
        BY DEF ImagesInv, Process, NoPicture
      <2>2. source.width \in Nat \ {0} /\ source.height \in Nat \ {0}
        BY <2>1, ImagesAssumption, SMT DEF Accepted
      <2> QED BY <2>1, <2>2, ResizeScales, ImagesAssumption DEF AvatarIsScaled
    <1> QED BY <1>1, ImagesInvariant, PTL

\* The quotient is the only number that fits.
LEMMA QuotientUnique ==
    ASSUME NEW a \in Nat, NEW b \in Nat \ {0}, NEW q \in Nat, q * b <= a, a < q * b + b
    PROVE  a \div b = q
    <1> DEFINE p == a \div b
    <1>1. p \in Nat /\ p * b <= a /\ a < p * b + b BY Quotient
    <1> HIDE DEF p
    <1>2. (p + 1) * b = p * b + b /\ (q + 1) * b = q * b + b BY <1>1, SMT
    <1>3. p * b \in Nat /\ q * b \in Nat BY <1>1, SMT
    <1>4. p * b < (q + 1) * b /\ q * b < (p + 1) * b BY <1>1, <1>2, <1>3, SMT
    <1>5. p < q + 1 /\ q < p + 1 BY <1>1, <1>4, TimesReflects, SMT
    <1> QED BY <1>1, <1>5, SMT DEF p

\* Rounding down twice is rounding down once.
LEMMA NestedQuotient ==
    ASSUME NEW a \in Nat, NEW b \in Nat \ {0}, NEW k \in Nat \ {0}
    PROVE  ((a * k) \div b) \div k = a \div b
    <1> DEFINE q == (a * k) \div b
               p == q \div k
    <1>1. a * k \in Nat BY SMT
    <1>2. q \in Nat /\ q * b <= a * k /\ a * k < q * b + b BY <1>1, Quotient
    <1> HIDE DEF q
    <1>3. p \in Nat /\ p * k <= q /\ q < p * k + k BY <1>2, Quotient
    <1> HIDE DEF p
    <1>4. p * b <= a
      <2> SUFFICES ASSUME a < p * b PROVE FALSE BY <1>3, SMT
      <2>1. p * b \in Nat /\ (a + 1) * k <= (p * b) * k BY <1>3, TimesMonotone, SMT
      <2>2. (p * b) * k = (p * k) * b /\ (a + 1) * k = a * k + k BY <1>3, SMT
      <2>3. p * k \in Nat /\ (p * k) * b <= q * b BY <1>2, <1>3, TimesMonotone, SMT
      <2> QED BY <1>1, <1>2, <2>1, <2>2, <2>3, SMT
    <1>5. a < p * b + b
      <2>1. q + 1 <= p * k + k BY <1>2, <1>3, SMT
      <2>2. p * k + k \in Nat /\ (q + 1) * b <= (p * k + k) * b
        BY <1>2, <1>3, <2>1, TimesMonotone, SMT
      <2>3. (q + 1) * b = q * b + b BY <1>2, SMT
      <2>4. (p * k + k) * b = (p * b + b) * k BY <1>3, SMT
      <2>5. p * b + b \in Nat BY <1>3, SMT
      <2>6. a * k < (p * b + b) * k BY <1>1, <1>2, <2>2, <2>3, <2>4, SMT
      <2> QED BY <2>5, <2>6, TimesReflects
    <1>6. q \div k = p BY <1>2, <1>3 DEF p
    <1>7. a \div b = p BY <1>3, <1>4, <1>5, QuotientUnique
    <1> QED BY <1>6, <1>7 DEF q

\* The shorter side of the thumbnail is the same, made from the upload or from the
\* original.
LEMMA ShortSideTwice ==
    ASSUME NEW long \in Nat \ {0}, NEW short \in Nat \ {0},
           NEW max \in Nat \ {0}, NEW k \in Nat \ {0, 1}
    PROVE  AtLeastOne((AtLeastOne((short * (max * k)) \div long) * max) \div (max * k))
             = AtLeastOne((short * max) \div long)
    <1> DEFINE a == short * max
               q == (a * k) \div long
               side == AtLeastOne((short * (max * k)) \div long)
    <1>1. a \in Nat /\ a * k \in Nat /\ short * (max * k) = a * k BY SMT
    <1>2. side = AtLeastOne(q) BY <1>1
    <1>3. q \in Nat BY <1>1, Quotient
    <1>4. q \div k = a \div long BY <1>1, NestedQuotient
    <1> HIDE DEF q, a, side
    <1>5. side \in Nat BY <1>2, <1>3, SMT DEF AtLeastOne
    <1>6. (side * max) \div (max * k) = side \div k
      <2> DEFINE p == side \div k
      <2>1. p \in Nat /\ p * k <= side /\ side < p * k + k BY <1>5, Quotient
      <2> HIDE DEF p
      <2>2. p * k \in Nat /\ p * k + k \in Nat BY <2>1, SMT
      <2>3. (p * k) * max <= side * max BY <1>5, <2>1, <2>2, TimesMonotone
      <2>4. (side + 1) * max <= (p * k + k) * max
        BY <1>5, <2>1, <2>2, TimesMonotone, SMT
      <2>5. (p * k) * max = p * (max * k) /\ (p * k + k) * max = p * (max * k) + max * k
        BY <2>1, SMT
      <2>6. side * max < (side + 1) * max
        <3>1. (side + 1) * max = side * max + max BY <1>5, SMT
        <3>2. side * max \in Nat BY <1>5, SMT
        <3> QED BY <3>1, <3>2, SMT
      <2>7. side * max \in Nat /\ max * k \in Nat \ {0} /\ p * (max * k) \in Nat
            /\ (side + 1) * max \in Nat
        BY <1>5, <2>1, SMT
      <2> DEFINE x == side * max
                 y == max * k
                 z == p * (max * k)
                 v == (side + 1) * max
      <2>8. x \in Nat /\ y \in Nat \ {0} /\ z <= x /\ x < v /\ v <= z + y
        BY <2>3, <2>4, <2>5, <2>6, <2>7
      <2>9. p * y <= x /\ x < p * y + y
        <3> HIDE DEF x, y, v
        <3>1. z \in Nat /\ v \in Nat BY <2>7 DEF v, y
        <3>2. z = p * y BY DEF y
        <3> HIDE DEF z
        <3> QED BY <2>8, <3>1, <3>2, SMT
      <2>10. x \div y = p BY <2>1, <2>8, <2>9, QuotientUnique
      <2> QED BY <2>10 DEF p
    <1>7. CASE q < 1
      <2>1. q = 0 /\ side = 1 BY <1>2, <1>3, <1>7, SMT DEF AtLeastOne
      <2>2. q \div k = 0 /\ side \div k = 0
        BY <2>1, QuotientUnique, SMT
      <2> QED BY <1>4, <1>6, <2>2 DEF a, side
    <1>8. CASE q >= 1
      <2>1. side = q BY <1>2, <1>3, <1>8, SMT DEF AtLeastOne
      <2> QED BY <1>4, <1>6, <2>1 DEF a, side
    <1> QED BY <1>3, <1>7, <1>8, SMT

\* Resizing the original again changes nothing, and its thumbnail is the upload's.
LEMMA ResizeTwice ==
    ASSUME NEW w \in Nat \ {0}, NEW h \in Nat \ {0},
           NEW max \in Nat \ {0}, NEW k \in Nat \ {0}
    PROVE  LET s == Sized(w, h)
               again == Resize(s, max * k)
           IN  /\ Resize(again, max * k) = again
               /\ Resize(again, max) = Resize(s, max)
    <1> DEFINE bound == max * k
               s == Sized(w, h)
               again == Resize(s, bound)
    <1> SUFFICES /\ Resize(again, bound) = Resize(s, bound)
                 /\ Resize(again, max) = Resize(s, max)
        OBVIOUS
    <1>0. s.width = w /\ s.height = h BY DEF Sized
    <1> HIDE DEF s
    <1>1. bound \in Nat \ {0} /\ max <= bound
      <2>1. bound \in Nat BY SMT
      <2>2. 1 * max <= k * max BY TimesMonotone, SMT
      <2>3. k * max = bound /\ 1 * max = max BY SMT
      <2> QED BY <2>1, <2>2, <2>3, SMT
    <1>2. CASE w <= bound /\ h <= bound
      <2>1. again.width = w /\ again.height = h BY <1>0, <1>2 DEF Resize, Sized
      <2> QED BY <1>0, <2>1 DEF Resize
    <1>3. CASE ~(w <= bound /\ h <= bound) /\ k = 1
      <2>1. bound = max BY <1>3, SMT
      <2>2. Resize(again, max) = Resize(s, max)
        <3>1. CASE w >= h
          <4> DEFINE side == AtLeastOne((h * max) \div w)
          <4>1. again.width = max /\ again.height = side
            BY <1>0, <1>3, <2>1, <3>1 DEF Resize, Sized
          <4>2. max < w /\ h <= w BY <1>3, <2>1, <3>1, SMT
          <4>3. side <= max BY <4>2, ShortSide
          <4>4. Resize(s, max) = Sized(max, side) BY <1>0, <1>3, <2>1, <3>1 DEF Resize
          <4> HIDE DEF side
          <4> QED BY <4>1, <4>3, <4>4 DEF Resize
        <3>2. CASE ~(w >= h)
          <4> DEFINE side == AtLeastOne((w * max) \div h)
          <4>1. again.width = side /\ again.height = max
            BY <1>0, <1>3, <2>1, <3>2 DEF Resize, Sized
          <4>2. max < h /\ w <= h BY <1>3, <2>1, <3>2, SMT
          <4>3. side <= max BY <4>2, ShortSide
          <4>4. Resize(s, max) = Sized(side, max) BY <1>0, <1>3, <2>1, <3>2 DEF Resize
          <4> HIDE DEF side
          <4> QED BY <4>1, <4>3, <4>4 DEF Resize
        <3> QED BY <3>1, <3>2
      <2> QED BY <2>1, <2>2
    <1>4. CASE ~(w <= bound /\ h <= bound) /\ k # 1
      <2>1. k \in Nat \ {0, 1} BY <1>4, SMT
      <2>2. max < bound
        <3>1. 2 * max <= k * max BY <2>1, TimesMonotone, SMT
        <3>2. k * max = bound BY SMT
        <3> QED BY <3>1, <3>2, SMT
      <2>3. CASE w >= h
        <3> DEFINE side == AtLeastOne((h * bound) \div w)
        <3>1. again.width = bound /\ again.height = side
              /\ Resize(s, bound) = Sized(bound, side)
          BY <1>0, <1>4, <2>3 DEF Resize, Sized
        <3>2. bound < w /\ h <= w /\ max < w BY <1>1, <1>4, <2>2, <2>3, SMT
        <3>3. side \in Nat /\ side <= bound
          <4> HIDE DEF bound
          <4>1. side \in 1..h /\ side <= bound BY <3>2, <1>1, ShortSide, Zenon
          <4> HIDE DEF side
          <4> QED BY <4>1, SMT
        <3>4. AtLeastOne((side * max) \div bound) = AtLeastOne((h * max) \div w)
          BY <2>1, ShortSideTwice
        <3>5. Resize(s, max) = Sized(max, AtLeastOne((h * max) \div w))
          <4>1. ~(w <= max /\ h <= max) BY <3>2, <1>1, SMT
          <4> QED BY <1>0, <4>1, <2>3 DEF Resize
        <3> HIDE DEF side, bound
        <3>6. ~(bound <= max /\ side <= max) BY <2>2, <1>1, SMT
        <3>7. bound >= side BY <3>3, <1>1, SMT
        <3>8. Resize(again, max) = Sized(max, AtLeastOne((side * max) \div bound))
          BY <3>1, <3>6, <3>7 DEF Resize
        <3>9. Resize(again, bound) = Sized(bound, side)
          BY <3>1, <3>3, <1>1, SMT DEF Resize
        <3> QED BY <3>1, <3>4, <3>5, <3>8, <3>9 DEF bound
      <2>4. CASE ~(w >= h)
        <3> DEFINE side == AtLeastOne((w * bound) \div h)
        <3>1. again.width = side /\ again.height = bound
              /\ Resize(s, bound) = Sized(side, bound)
          BY <1>0, <1>4, <2>4 DEF Resize, Sized
        <3>2. bound < h /\ w <= h /\ w < h /\ max < h BY <1>1, <1>4, <2>2, <2>4, SMT
        <3>3. side \in Nat /\ side <= bound
          <4> HIDE DEF bound
          <4>1. side \in 1..w /\ side <= bound BY <3>2, <1>1, ShortSide, Zenon
          <4> HIDE DEF side
          <4> QED BY <4>1, SMT
        <3>4. AtLeastOne((side * max) \div bound) = AtLeastOne((w * max) \div h)
          BY <2>1, ShortSideTwice
        <3>5. Resize(s, max) = Sized(AtLeastOne((w * max) \div h), max)
          <4>1. ~(w <= max /\ h <= max) BY <3>2, <1>1, SMT
          <4> QED BY <1>0, <4>1, <2>4 DEF Resize
        <3>6. Distance(side * h, bound * w) < h BY <3>2, <1>1, ShortSide
        <3>7. side # bound
          <4> SUFFICES ASSUME side = bound PROVE FALSE OBVIOUS
          <4>1. side = 1 \/ side = (w * bound) \div h BY DEF AtLeastOne
          <4>2. CASE side = 1
            BY <4>2, <2>2, <1>1, SMT
          <4>3. CASE side = (w * bound) \div h
            <5>1. w * bound \in Nat BY <1>1, SMT
            <5>2. bound * h <= w * bound BY <4>3, <5>1, Quotient
            <5>3. w * bound = bound * w BY <1>1, SMT
            <5>4. (w + 1) * bound <= h * bound BY <3>2, <1>1, TimesMonotone, SMT
            <5>5. (w + 1) * bound = w * bound + bound /\ h * bound = bound * h
              BY <1>1, SMT
            <5>6. bound * h \in Nat BY <1>1, SMT
            <5> QED BY <5>1, <5>2, <5>4, <5>5, <5>6, <1>1, SMT
          <4> QED BY <4>1, <4>2, <4>3
        <3> HIDE DEF side, bound
        <3>8. ~(side <= max /\ bound <= max) BY <2>2, <1>1, SMT
        <3>9. ~(side >= bound) BY <3>3, <3>7, <1>1, SMT
        <3>10. Resize(again, max) = Sized(AtLeastOne((side * max) \div bound), max)
          BY <3>1, <3>8, <3>9 DEF Resize
        <3>11. Resize(again, bound) = Sized(side, bound)
          BY <3>1, <3>3, <1>1, SMT DEF Resize
        <3> QED BY <3>1, <3>4, <3>5, <3>10, <3>11 DEF bound
      <2> QED BY <2>3, <2>4
    <1> QED BY <1>2, <1>3, <1>4

\* An avatar whose stored original is uploaded again keeps the dimensions of both its
\* pictures, and its content type becomes png, whenever the size of the thumbnail divides
\* that of the original.
THEOREM AvatarStable ==
    ASSUME NEW k \in Nat \ {0}, MaxOriginalSize = ThumbSize * k
    PROVE  ImagesSpec => AvatarIsStable
    <1>1. ImagesInv /\ [ImagesNext]_imageVars
            => [UploadAgain => /\ ~result'.error
                               /\ result'.original = result.original
                               /\ result'.thumb = result.thumb
                               /\ result'.contentType = "png"]_imageVars
      <2> SUFFICES ASSUME ImagesInv, UploadAgain
                   PROVE  /\ ~result'.error
                          /\ result'.original = result.original
                          /\ result'.thumb = result.thumb
                          /\ result'.contentType = "png"
        OBVIOUS
      <2>1. /\ Accepted(source)
            /\ result.original = Resize(source, MaxOriginalSize)
            /\ result.thumb = Resize(source, ThumbSize)
        BY DEF UploadAgain, ImagesInv, Process, NoPicture
      <2>2. source.width \in 1..MaxDimension /\ source.height \in 1..MaxDimension
        BY <2>1 DEF Accepted
      <2>3. source.width \in Nat \ {0} /\ source.height \in Nat \ {0}
        BY <2>2, ImagesAssumption, SMT
      <2> DEFINE again == [format |-> "png", intact |-> TRUE,
                           width |-> result.original.width,
                           height |-> result.original.height]
      <2>4. result' = Process(again) BY DEF UploadAgain
      <2>5. Resize(again, MaxOriginalSize) = result.original
            /\ Resize(again, ThumbSize) = result.thumb
        <3> DEFINE dims == Sized(source.width, source.height)
        <3>1. result.original = Resize(dims, ThumbSize * k)
              /\ result.thumb = Resize(dims, ThumbSize)
          BY <2>1 DEF Resize, Sized
        <3>2. Resize(Resize(dims, ThumbSize * k), ThumbSize * k) = Resize(dims, ThumbSize * k)
              /\ Resize(Resize(dims, ThumbSize * k), ThumbSize) = Resize(dims, ThumbSize)
          <4> DEFINE w == source.width
                     h == source.height
          <4>1. w \in Nat \ {0} /\ h \in Nat \ {0} /\ ThumbSize \in Nat \ {0}
            BY <2>3, ImagesAssumption
          <4> HIDE DEF w, h
          <4>2. LET again0 == Resize(Sized(w, h), ThumbSize * k)
                IN  /\ Resize(again0, ThumbSize * k) = again0
                    /\ Resize(again0, ThumbSize) = Resize(Sized(w, h), ThumbSize)
            BY <4>1, ResizeTwice
          <4> QED BY <4>2 DEF w, h
        <3>3. \A max : Resize(again, max) = Resize(result.original, max)
          BY DEF Resize
        <3> HIDE DEF dims, again
        <3> QED BY <3>1, <3>2, <3>3
      <2>6. Scaled(result.original, MaxOriginalSize)
        BY <2>1, <2>3, ResizeScales, ImagesAssumption
      <2>7. /\ result.original.width \in 1..MaxDimension
            /\ result.original.height \in 1..MaxDimension
        BY <2>2, <2>6, ImagesAssumption, SMT DEF Scaled
      <2>8. Accepted(again) BY <2>7 DEF Accepted, Decodes
      <2> QED BY <2>4, <2>5, <2>8 DEF Process
    <1> QED BY <1>1, ImagesInvariant, PTL DEF ImagesSpec, AvatarIsStable

-----------------------------------------------------------------------------
(***************************************************************************)
(* The configuration.                                                      *)
(***************************************************************************)

\* The options at every stage of run(), from the sources.
AfterDefaults == ApplyAppEnv(BuiltIn)

AfterFile == IF file = Unset THEN AfterDefaults ELSE ApplyAppJSON(AfterDefaults)

ConfigInv ==
    /\ env \in Environments
    /\ file \in Files \union {Unset, Unreadable}
    /\ at \in {"flags", "done"} => file # Unreadable
    /\ flags \in CommandLines
    /\ at \in {"launch", "defaults", "file", "flags", "done", "panicked"}
    /\ at \in {"launch", "defaults"} => options = BuiltIn
    /\ at = "file" => options = AfterDefaults
    /\ at = "flags" => options = AfterFile
    /\ at = "done" => options = ApplyAppEnv(ApplyFlags(AfterFile))

\* What the operators depend on stays, once the sources are fixed.
LEMMA SameSources ==
    ASSUME UNCHANGED <<env, file, flags>>
    PROVE  AfterDefaults' = AfterDefaults /\ AfterFile' = AfterFile
    BY DEF AfterDefaults, AfterFile, ApplyAppEnv, ApplyAppJSON, BuiltIn

\* The options at every stage are what run() has made of the sources so far.
LEMMA ConfigInvariant == ConfigSpec => []ConfigInv
    <1>1. ConfigInit => ConfigInv
      BY DEF ConfigInit, ConfigInv, Environments, Files, CommandLines
    <1>2. ConfigInv /\ [ConfigNext]_configVars => ConfigInv'
      <2> SUFFICES ASSUME ConfigInv, [ConfigNext]_configVars PROVE ConfigInv'
        OBVIOUS
      <2>1. CASE Launch
        BY <2>1 DEF Launch, ConfigInv, BuiltIn
      <2>2. CASE DefaultAppOptions
        BY <2>2, SameSources DEF DefaultAppOptions, ConfigInv, AfterDefaults
      <2>3. CASE ReadFile
        BY <2>3, SameSources, ConfigAssumption DEF ReadFile, ConfigInv, AfterFile
      <2>4. CASE ParseFlags
        <3>1. (ApplyAppEnv(ApplyFlags(AfterFile)))' = ApplyAppEnv(ApplyFlags(AfterFile))
          BY <2>4, SameSources DEF ParseFlags, ApplyAppEnv, ApplyFlags
        <3> QED BY <2>4, <3>1 DEF ParseFlags, ConfigInv
      <2>5. CASE UNCHANGED configVars
        <3>1. (ApplyAppEnv(ApplyFlags(AfterFile)))' = ApplyAppEnv(ApplyFlags(AfterFile))
          BY <2>5, SameSources DEF configVars, ApplyAppEnv, ApplyFlags
        <3> QED BY <2>5, <3>1, SameSources DEF configVars, ConfigInv, BuiltIn
      <2> QED BY <2>1, <2>2, <2>3, <2>4, <2>5 DEF ConfigNext
    <1> QED BY <1>1, <1>2, PTL DEF ConfigSpec

\* The sources have one order of precedence for every kind of option, although the
\* environment is applied before the file and again after the flags.
THEOREM OptionsPrecedence == ConfigSpec => []Precedence
    <1>1. ConfigInv => Precedence
      <2> SUFFICES ASSUME ConfigInv, at = "done" PROVE Precedence
        BY DEF Precedence
      <2>1. options = ApplyAppEnv(ApplyFlags(AfterFile))
        BY DEF ConfigInv
      <2>2. \A o \in Strings : options.strings[o] =
                Or(env.strings[o],
                   Or(IF o \in Flags THEN flags.strings[o] ELSE Unset,
                      Or(IF file = Unset THEN Unset ELSE Told(file.strings[o]), DefaultString)))
        <3> TAKE o \in Strings
        <3>1. AfterDefaults.strings[o] = Or(env.strings[o], DefaultString)
          BY DEF AfterDefaults, ApplyAppEnv, EnvString, BuiltIn, Or
        <3>2. env.strings[o] = Unset =>
                AfterFile.strings[o] =
                  Or(IF file = Unset THEN Unset ELSE Told(file.strings[o]), DefaultString)
          BY <3>1, ConfigAssumption
          DEF AfterFile, ApplyAppJSON, Or, Told, ConfigInv, Files
        <3>3. ApplyFlags(AfterFile).strings[o] =
                Or(IF o \in Flags THEN flags.strings[o] ELSE Unset, AfterFile.strings[o])
          <4>1. DOMAIN AfterFile.strings = Strings
            BY DEF AfterFile, AfterDefaults, ApplyAppJSON, ApplyAppEnv
          <4>2. AfterFile = [strings |-> AfterFile.strings, ssl |-> AfterFile.ssl,
                             maxUpload |-> AfterFile.maxUpload]
            BY DEF AfterFile, AfterDefaults, ApplyAppJSON, ApplyAppEnv
          <4> HIDE DEF AfterFile
          <4> QED BY <4>1, <4>2 DEF ApplyFlags, Or
        <3>4. options.strings[o] = Or(env.strings[o], ApplyFlags(AfterFile).strings[o])
          BY <2>1 DEF ApplyAppEnv, EnvString, Or
        <3> QED BY <3>2, <3>3, <3>4 DEF Or
      <2>3. /\ ApplyFlags(AfterFile).ssl = AfterFile.ssl
            /\ ApplyFlags(AfterFile).maxUpload = AfterFile.maxUpload
        BY DEF ApplyFlags, AfterFile, AfterDefaults, ApplyAppJSON, ApplyAppEnv
      <2>4. options.ssl = Or(Told(env.ssl), Or(IF file = Unset THEN Unset ELSE file.ssl, FALSE))
        <3>1. options.ssl = EnvParsed(env.ssl, AfterFile.ssl)
          BY <2>1, <2>3 DEF ApplyAppEnv
        <3>2. AfterDefaults.ssl = EnvParsed(env.ssl, FALSE)
          BY DEF AfterDefaults, ApplyAppEnv, BuiltIn
        <3>3. AfterFile.ssl = IF file = Unset THEN AfterDefaults.ssl
                              ELSE Or(file.ssl, AfterDefaults.ssl)
          BY DEF AfterFile, ApplyAppJSON, Or
        <3> QED BY <3>1, <3>2, <3>3, ConfigAssumption DEF EnvParsed, Or, Told
      <2>5. options.maxUpload =
              Or(Told(env.maxUpload),
                 Or(IF file # Unset /\ file.maxUpload > 0 THEN file.maxUpload ELSE Unset,
                    DefaultMaxUpload))
        <3>1. options.maxUpload = EnvParsed(env.maxUpload, AfterFile.maxUpload)
          BY <2>1, <2>3 DEF ApplyAppEnv
        <3>2. AfterDefaults.maxUpload = EnvParsed(env.maxUpload, DefaultMaxUpload)
          BY DEF AfterDefaults, ApplyAppEnv, BuiltIn
        <3>3. AfterFile.maxUpload =
                IF file # Unset /\ file.maxUpload > 0 THEN file.maxUpload
                                                      ELSE AfterDefaults.maxUpload
          BY DEF AfterFile, ApplyAppJSON
        <3>4. file # Unset => file.maxUpload # Unset
          BY ConfigAssumption DEF ConfigInv, Files
        <3> QED BY <3>1, <3>2, <3>3, <3>4, ConfigAssumption DEF EnvParsed, Or, Told
      <2> QED BY <2>2, <2>4, <2>5 DEF Precedence
    <1> QED BY <1>1, ConfigInvariant, PTL

-----------------------------------------------------------------------------
(***************************************************************************)
(* The two stores.                                                         *)
(***************************************************************************)

\* The stores agree, and created_at is a time that is past.
StoresInv ==
    /\ StoresAgree
    /\ now \in Nat
    /\ createdAt \in [People -> 0..now]
    /\ memCreatedAt \in [People -> 0..now]
    /\ table \in [People -> {None} \union Row(Ids)]
    /\ \A u \in replaced : u \in People /\ table[u] # None

\* An upload that inserts a row sets both times, one that replaces it only MemStorage's.
LEMMA UpsertAgrees ==
    ASSUME StoresInv, NEW u \in People, NEW m \in Ids, Upsert(u, m)
    PROVE  StoresInv'
    <1> USE DEF StoresInv, StoresAgree
    <1>1. now' = now + 1 /\ now' \in Nat /\ 0..now \subseteq 0..now' /\ now' \in 0..now'
      BY DEF Upsert, Tick
    <1>2. memCreatedAt' = [memCreatedAt EXCEPT ![u] = now']
      BY DEF Upsert, UpsertAvatarMem
    <1>3. createdAt' = IF table[u] = None THEN [createdAt EXCEPT ![u] = now'] ELSE createdAt
      BY DEF Upsert, CreatedAt, Missing
    <1>4. replaced' = IF table[u] = None THEN replaced ELSE replaced \union {u}
      BY DEF Upsert, Missing
    <1>5. createdAt' \in [People -> 0..now'] /\ memCreatedAt' \in [People -> 0..now']
      BY <1>1, <1>2, <1>3
    <1>6. table' = memory' /\ done' = memDone'
      BY DEF Upsert, UpsertAvatar, UpsertAvatarMem, SetRow
    <1>7. answers.pg' = answers.mem'
      BY DEF Upsert, Answer
    <1>8. ASSUME NEW v \in People
          PROVE  IF v \in replaced' THEN createdAt'[v] < memCreatedAt'[v]
                                    ELSE createdAt'[v] = memCreatedAt'[v]
      <2>1. CASE v # u
        BY <1>2, <1>3, <1>4, <2>1
      <2>2. CASE v = u /\ table[u] # None
        <3>1. v \in replaced' /\ createdAt'[v] = createdAt[v] /\ memCreatedAt'[v] = now + 1
          BY <1>1, <1>2, <1>3, <1>4, <2>2
        <3>2. createdAt[v] \in 0..now
          OBVIOUS
        <3> QED
          BY <3>1, <3>2
      <2>3. CASE v = u /\ table[u] = None
        BY <1>2, <1>3, <1>4, <2>3
      <2> QED BY <2>1, <2>2, <2>3
    <1>9. /\ table' \in [People -> {None} \union Row(Ids)]
          /\ table' = [table EXCEPT ![u] = table'[u]] /\ table'[u] # None
      <2>1. PICK r : r = [status |-> "pending", stagingKey |-> m, image |-> None, messageID |-> m]
        OBVIOUS
      <2>2. r \in Row(Ids)
        BY <2>1 DEF Row, Statuses
      <2>3. table' = [table EXCEPT ![u] = r]
        BY <2>1 DEF Upsert, UpsertAvatar
      <2> QED BY <2>2, <2>3, StoresAssumption
    <1>10. \A v \in replaced' : v \in People /\ table'[v] # None
      BY <1>4, <1>9
    <1> QED BY <1>1, <1>5, <1>6, <1>7, <1>8, <1>9, <1>10

\* Neither does a call that changes a row or no row, and nothing else, in both.
LEMMA RowsAgree ==
    ASSUME StoresInv, Tick, table' = memory', done' = memDone',
           UNCHANGED <<createdAt, memCreatedAt, replaced>>,
           table' \in [People -> {None} \union Row(Ids)],
           \A u \in People : table[u] # None => table'[u] # None,
           \/ answers'.pg = answers'.mem
           \/ answers' = [pg |-> Reply("nil"), mem |-> Reply("ErrNotFound")]
    PROVE  StoresInv'
    <1>1. now' \in Nat /\ 0..now \subseteq 0..now'
      BY DEF StoresInv, Tick
    <1>2. createdAt' \in [People -> 0..now'] /\ memCreatedAt' \in [People -> 0..now']
      BY <1>1 DEF StoresInv
    <1>3. \A u \in replaced' : u \in People /\ table'[u] # None
      BY DEF StoresInv
    <1>4. StoresAgree'
      BY DEF StoresInv, StoresAgree
    <1> QED BY <1>1, <1>2, <1>3, <1>4 DEF StoresInv

\* No step of the clients makes the stores differ in anything else.
LEMMA StoresStep == StoresInv /\ [StoresNext]_storesVars => StoresInv'
    <1> SUFFICES ASSUME StoresInv, [StoresNext]_storesVars PROVE StoresInv'
      OBVIOUS
    <1>0. /\ table = memory /\ done = memDone
          /\ table \in [People -> {None} \union Row(Ids)]
      BY DEF StoresInv, StoresAgree
    <1>1. ASSUME NEW u \in People, NEW m \in Ids, Upsert(u, m) PROVE StoresInv'
      BY <1>1, UpsertAgrees
    <1>2. ASSUME NEW u \in People, NEW m \in Ids, MarkReady(u, m) PROVE StoresInv'
      <2>1. table' = memory' /\ done' = memDone' /\ Tick
        BY <1>0, <1>2 DEF MarkReady, MarkAvatarReady, MarkReadyMem, SetRow, Missing
      <2>2. /\ table' \in [People -> {None} \union Row(Ids)]
            /\ \A v \in People : table[v] # None => table'[v] # None
        <3>1. CASE table[u] = None
          BY <1>0, <1>2, <3>1 DEF MarkReady, MarkAvatarReady
        <3>2. CASE table[u] # None
          <4>1. table[u] \in Row(Ids)
            BY <1>0, <3>2
          <4>2. PICK r : r = [table[u] EXCEPT !.status = "ready", !.stagingKey = None,
                                              !.image = m]
            OBVIOUS
          <4>3. r \in Row(Ids)
            BY <4>1, <4>2 DEF Row, Statuses
          <4>4. table' = [table EXCEPT ![u] = r]
            BY <1>2, <3>2, <4>2 DEF MarkReady, MarkAvatarReady
          <4> QED BY <1>0, <4>3, <4>4, StoresAssumption
        <3> QED BY <3>1, <3>2
      <2>3. \/ answers'.pg = answers'.mem
            \/ answers' = [pg |-> Reply("nil"), mem |-> Reply("ErrNotFound")]
        BY <1>2 DEF MarkReady, Answer, NilOrNotFound
      <2> QED
        BY <1>2, <2>1, <2>2, <2>3, RowsAgree DEF MarkReady
    <1>3. ASSUME NEW u \in People, NEW m \in Ids, Read(u, m) PROVE StoresInv'
      <2>1. /\ UNCHANGED <<table, createdAt, done, memory, memCreatedAt, memDone, replaced>>
            /\ Tick
        BY <1>3 DEF Read, pgVars, memVars
      <2>2. now' \in Nat /\ 0..now \subseteq 0..now'
        BY <2>1 DEF Tick, StoresInv
      <2>3. PICK b : b = TotalStorageBytes(table)
        OBVIOUS
      <2>4. PICK a, k, r, p : /\ a = createdAt[u] /\ k = memCreatedAt[u]
                              /\ r = table[u] /\ p = (m \in done)
        OBVIOUS
      <2>5. answers' = [pg |-> Data([row |-> r, createdAt |-> a, processed |-> p, bytes |-> b]),
                        mem |-> Data([row |-> r, createdAt |-> k, processed |-> p,
                                      bytes |-> b])]
        BY <1>0, <1>3, <2>3, <2>4 DEF Read, Answer, Seen
      <2>6. CASE u \in replaced
        <3>1. /\ answers'.pg.data.createdAt = a
              /\ answers'.mem = [answers'.pg EXCEPT !.data =
                                    [answers'.pg.data EXCEPT !.createdAt = k]]
          BY <2>5 DEF Data
        <3> QED BY <2>1, <2>2, <2>4, <2>6, <3>1 DEF StoresInv, StoresAgree
      <2>7. CASE u \notin replaced
        <3>1. a = k
          BY <2>4, <2>7 DEF StoresInv, StoresAgree
        <3>2. answers'.pg = answers'.mem
          BY <2>5, <3>1
        <3> QED BY <2>1, <2>2, <3>2 DEF StoresInv, StoresAgree
      <2> QED BY <2>6, <2>7
    <1>4. ASSUME NEW u \in People, NEW status \in {"processing", "failed"},
                 UpdateStatus(u, status)
          PROVE  StoresInv'
      <2>1. table' = memory' /\ done' = memDone' /\ Tick
        BY <1>0, <1>4 DEF UpdateStatus, UpdateAvatarStatus, SetRow, Missing
      <2>2. /\ table' \in [People -> {None} \union Row(Ids)]
            /\ \A v \in People : table[v] # None => table'[v] # None
        <3>1. CASE table[u] = None
          BY <1>0, <1>4, <3>1 DEF UpdateStatus, UpdateAvatarStatus
        <3>2. CASE table[u] # None
          <4>1. table[u] \in Row(Ids)
            BY <1>0, <3>2
          <4>2. PICK r : r = [table[u] EXCEPT !.status = status]
            OBVIOUS
          <4>3. r \in Row(Ids)
            BY <4>1, <4>2 DEF Row, Statuses
          <4>4. table' = [table EXCEPT ![u] = r]
            BY <1>4, <3>2, <4>2 DEF UpdateStatus, UpdateAvatarStatus
          <4> QED BY <1>0, <4>3, <4>4, StoresAssumption
        <3> QED BY <3>1, <3>2
      <2>3. \/ answers'.pg = answers'.mem
            \/ answers' = [pg |-> Reply("nil"), mem |-> Reply("ErrNotFound")]
        BY <1>4 DEF UpdateStatus, Answer, NilOrNotFound
      <2> QED
        BY <1>4, <2>1, <2>2, <2>3, RowsAgree DEF UpdateStatus
    <1>5. ASSUME NEW u \in People, Remove(u) PROVE StoresInv'
      <2>1. now' \in Nat /\ 0..now \subseteq 0..now'
        BY <1>5 DEF Remove, Tick, StoresInv
      <2>2. answers'.pg = answers'.mem
        BY <1>0, <1>5 DEF Remove, Answer, NilOrNotFound, Missing
      <2>3. /\ table' = [table EXCEPT ![u] = None] /\ table' = memory' /\ done' = memDone'
            /\ createdAt' = [createdAt EXCEPT ![u] = 0]
            /\ memCreatedAt' = [memCreatedAt EXCEPT ![u] = 0]
            /\ replaced' = replaced \ {u}
        BY <1>0, <1>5 DEF Remove, DeleteAvatarRow
      <2>4. /\ createdAt' \in [People -> 0..now'] /\ memCreatedAt' \in [People -> 0..now']
            /\ table' \in [People -> {None} \union Row(Ids)]
        BY <2>1, <2>3 DEF StoresInv
      <2>5. StoresAgree'
        BY <2>2, <2>3 DEF StoresInv, StoresAgree
      <2> QED BY <2>1, <2>3, <2>4, <2>5 DEF StoresInv
    <1>6. ASSUME NEW m \in Ids, MarkMessage(m) PROVE StoresInv'
      <2>1. answers'.pg = answers'.mem
        BY <1>6 DEF MarkMessage, Answer
      <2> QED BY <1>0, <1>6, <2>1, RowsAgree DEF MarkMessage
    <1>7. CASE UNCHANGED storesVars
      BY <1>7 DEF storesVars, StoresInv, StoresAgree
    <1> QED BY <1>1, <1>2, <1>3, <1>4, <1>5, <1>6, <1>7 DEF StoresNext

\* For any users, uploads and calls, MemStorage holds and answers what PostgreSQL does but
\* for the two differences StoresAgree names: the ErrNotFound that only it returns, and the
\* created_at of an avatar that was replaced.
THEOREM MemoryIsFaithful == StoresSpec => []StoresAgree
    <1>1. StoresInit => StoresInv
      BY DEF StoresInit, StoresInv, StoresAgree
    <1>2. StoresInv => StoresAgree
      BY DEF StoresInv
    <1> QED BY <1>1, <1>2, StoresStep, PTL DEF StoresSpec

-----------------------------------------------------------------------------
(***************************************************************************)
(* The circuit breaker, for every number of concurrent pings, threshold    *)
(* and cooldown.                                                           *)
(***************************************************************************)

\* While the breaker is open, the failures counted, those spent on trips after the first
\* and the calls still running are all calls that were running at the first trip, and
\* the call that tripped the breaker is over.
LateInv ==
    /\ openFor > 0 =>
         /\ trips > 0
         /\ (trips - 1) * MaxFailures + failures + Cardinality(Running) < Cardinality(Callers)
    /\ openFor = 0 => trips = 0

\* The failures counted are the latest completions.
StreakInv == failures <= streak

BreakerInv == BreakerTypeOK /\ LateInv /\ StreakInv

\* Running is a finite set, and one smaller without one of its members.
LEMMA RunningFinite ==
    /\ IsFiniteSet(Callers) /\ Cardinality(Callers) \in Nat
    /\ IsFiniteSet(Running) /\ Cardinality(Running) \in Nat
    /\ Cardinality(Running) <= Cardinality(Callers)
    /\ \A c \in Running :
         /\ Cardinality(Running \ {c}) = Cardinality(Running) - 1
         /\ Cardinality(Running \ {c}) \in Nat
         /\ Cardinality(Running \ {c}) < Cardinality(Callers)
<1>1. IsFiniteSet(Callers) /\ Running \subseteq Callers
  BY BreakerAssumption DEF Running
<1>2. /\ IsFiniteSet(Running) /\ Cardinality(Running) \in Nat
      /\ Cardinality(Callers) \in Nat
      /\ Cardinality(Running) <= Cardinality(Callers)
  BY <1>1, FS_Subset, FS_CardinalityType
<1>3. ASSUME NEW c \in Running
      PROVE  /\ Cardinality(Running \ {c}) = Cardinality(Running) - 1
             /\ Cardinality(Running \ {c}) \in Nat
  BY <1>2, <1>3, FS_RemoveElement, FS_CardinalityType
<1> QED BY <1>1, <1>2, <1>3

\* A call that completes leaves Running.
LEMMA CompletedLeaves ==
    ASSUME BreakerTypeOK, NEW c \in Callers, NEW a \in Answers,
           ping[c] = "running", ping' = [ping EXCEPT ![c] = a]
    PROVE  c \in Running /\ Running' = Running \ {c}
BY DEF BreakerTypeOK, Answers, Running

\* A further trip spends MaxFailures of the calls.
LEMMA OneMoreTrip ==
    ASSUME NEW n \in Int
    PROVE  /\ n * MaxFailures \in Int
           /\ (n + 1) * MaxFailures = n * MaxFailures + MaxFailures
           /\ n = 0 => n * MaxFailures = 0
           /\ n >= 0 => n * MaxFailures >= n
<1>1. PICK k \in Nat : MaxFailures = k + 1
  <2>1. MaxFailures - 1 \in Nat /\ MaxFailures = (MaxFailures - 1) + 1
    BY BreakerAssumption
  <2> QED BY <2>1
<1>2. n * MaxFailures = n * k + n
  BY <1>1
<1>3. n >= 0 => n * k >= 0
  OBVIOUS
<1> QED BY <1>2, <1>3, BreakerAssumption

\* The invariant holds in the initial state.
LEMMA BreakerInit == Init => BreakerInv
BY BreakerAssumption DEF Init, BreakerInv, BreakerTypeOK, LateInv, StreakInv

\* Every step preserves the invariant.
LEMMA BreakerStep == BreakerInv /\ [Next]_vars => BreakerInv'
<1> SUFFICES ASSUME BreakerInv, [Next]_vars PROVE BreakerInv'
  OBVIOUS
<1> USE BreakerAssumption DEF BreakerInv, BreakerTypeOK, StreakInv
<1>1. CASE \E c \in Callers : Admit(c)
  <2> PICK c \in Callers : Admit(c)
    BY <1>1
  <2>1. BreakerTypeOK' /\ StreakInv'
    BY DEF Admit, Answers, historyVars
  <2>2. openFor > 0 => Running' = Running
    BY DEF Admit, Running
  <2> QED BY <2>1, <2>2 DEF Admit, LateInv, historyVars
<1>2. CASE \E c \in Callers : Succeed(c)
  <2> PICK c \in Callers : Succeed(c)
    BY <1>2
  <2>1. BreakerTypeOK' /\ StreakInv'
    BY DEF Succeed, Answers
  <2>2. c \in Running /\ Running' = Running \ {c}
    BY CompletedLeaves DEF Succeed, Answers
  <2>3. /\ Cardinality(Running') = Cardinality(Running) - 1
        /\ Cardinality(Running) \in Nat /\ Cardinality(Callers) \in Nat
    BY <2>2, RunningFinite
  <2>4. (trips - 1) * MaxFailures \in Int
    BY OneMoreTrip
  <2> QED BY <2>1, <2>3, <2>4 DEF Succeed, LateInv
<1>3. CASE \E c \in Callers : Fail(c)
  <2> PICK c \in Callers : Fail(c)
    BY <1>3
  <2>1. BreakerTypeOK' /\ StreakInv'
    BY RunningFinite DEF Fail, OneMore, Answers
  <2>2. c \in Running /\ Running' = Running \ {c}
    BY CompletedLeaves DEF Fail, Answers
  <2>3. /\ Cardinality(Running') = Cardinality(Running) - 1
        /\ Cardinality(Running') < Cardinality(Callers)
        /\ Cardinality(Running) \in Nat /\ Cardinality(Callers) \in Nat
    BY <2>2, RunningFinite
  <2>4. (trips - 1) * MaxFailures \in Int /\ trips * MaxFailures \in Int
    BY OneMoreTrip
  <2>5. CASE failures + 1 >= MaxFailures
    <3>1. failures' = 0 /\ trips' = trips + 1 /\ openFor' = Cooldown
      <4>1. trips - 1 >= 0 => (trips - 1) * MaxFailures >= trips - 1
        BY OneMoreTrip
      <4>2. trips <= Cardinality(Callers)
        BY <2>3, <2>4, <4>1 DEF LateInv
      <4> QED BY <2>3, <2>5, <4>2 DEF Fail, OneMore
    <3>2. (trips' - 1) * MaxFailures = trips * MaxFailures
      BY <3>1
    <3>3. CASE openFor > 0
      <4>1. trips * MaxFailures = (trips - 1) * MaxFailures + MaxFailures
        BY OneMoreTrip
      <4>2. failures + 1 = MaxFailures
        BY <2>5
      <4> QED BY <2>1, <2>3, <2>4, <3>1, <3>2, <3>3, <4>1, <4>2 DEF LateInv
    <3>4. CASE openFor = 0
      <4>1. trips * MaxFailures = 0
        BY <3>4, OneMoreTrip DEF LateInv
      <4> QED BY <2>1, <2>3, <3>1, <3>2, <4>1 DEF LateInv
    <3> QED BY <3>3, <3>4
  <2>6. CASE ~(failures + 1 >= MaxFailures)
    <3>1. failures' = failures + 1 /\ trips' = trips /\ openFor' = openFor
      BY <2>6 DEF Fail
    <3> QED BY <2>1, <2>3, <2>4, <3>1 DEF LateInv
  <2> QED BY <2>5, <2>6
<1>4. CASE Elapse
  <2>1. Running' = Running
    BY <1>4 DEF Elapse, Running
  <2> QED BY <1>4, <2>1 DEF Elapse, LateInv
<1>5. CASE UNCHANGED vars
  <2>1. Running' = Running
    BY <1>5 DEF vars, Running
  <2> QED BY <1>5, <2>1 DEF vars, LateInv
<1> QED BY <1>1, <1>2, <1>3, <1>4, <1>5 DEF Next

\* The invariant holds in every reachable state.
THEOREM BreakerInvariant == Spec => []BreakerInv
BY BreakerInit, BreakerStep, PTL DEF Spec

\* Type correctness: Call never leaves a count at or above the threshold behind.
THEOREM BreakerTypeCorrect == Spec => []BreakerTypeOK
BY BreakerInvariant, PTL DEF BreakerInv

\* Every trip of Call after the first of an outage is paid for by maxFailures calls
\* that were running when the breaker tripped.
THEOREM LateTripsAreBounded == Spec => []LateTripsBounded
<1>1. BreakerInv => LateTripsBounded
  <2> SUFFICES ASSUME BreakerInv PROVE LateTripsBounded
    OBVIOUS
  <2>1. (trips - 1) * MaxFailures \in Int
    BY OneMoreTrip DEF BreakerInv, BreakerTypeOK
  <2> QED
    BY <2>1, RunningFinite, BreakerAssumption
    DEF BreakerInv, BreakerTypeOK, LateInv, LateTripsBounded
<1> QED BY <1>1, BreakerInvariant, PTL

\* Call opens the breaker only on maxFailures completions in a row that failed.
THEOREM TripsAreEarned == Spec => TripsOnStreak
<1>1. BreakerInv /\ [Next]_vars => [openFor' > openFor => streak' = MaxFailures]_vars
  <2> SUFFICES ASSUME BreakerInv, Next, openFor' > openFor PROVE streak' = MaxFailures
    BY DEF vars
  <2> QED
    BY BreakerAssumption
    DEF Next, Admit, Succeed, Fail, OneMore, Elapse, BreakerInv, BreakerTypeOK, StreakInv
<1> QED BY <1>1, BreakerInvariant, PTL DEF Spec, TripsOnStreak
=============================================================================
