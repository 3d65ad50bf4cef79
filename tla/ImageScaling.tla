----------------------------- MODULE ImageScaling -----------------------------
(***************************************************************************)
(* The images of the read tool (tile/tools/support/image_processing.py):   *)
(* an image is oriented, fitted once into the largest box and then made    *)
(* smaller by a quarter, again and again, until its bytes are below the    *)
(* limit.  Encoding is external: how many bytes an image takes at given    *)
(* dimensions, as PNG and at each JPEG quality, is an input.               *)
(*                                                                         *)
(* An image has the dimensions <<width, height>>.                          *)
(***************************************************************************)
EXTENDS Integers, Sequences, SequencesExt

CONSTANTS
  MaxWidth, MaxHeight,   \* ImageProcessingOptions.max_width, max_height
  MaxBase64Bytes         \* ImageProcessingOptions.max_base64_bytes

ASSUME BoxAssumption ==
  MaxWidth \in Nat \ {0} /\ MaxHeight \in Nat \ {0} /\ MaxBase64Bytes \in Nat

AtLeastOne(n) == IF n < 1 THEN 1 ELSE n

\* round(n / d): half to even
Round(n, d) ==
  LET q == n \div d
      r == n % d
  IN  IF 2 * r < d \/ (2 * r = d /\ q % 2 = 0) THEN q ELSE q + 1

\* Mutant: the height is fitted as it was before the width was.
FitDimensionsApart(width, height) ==
  <<IF height > MaxHeight THEN AtLeastOne(Round(width * MaxHeight, height)) ELSE width,
    IF width > MaxWidth THEN AtLeastOne(Round(height * MaxWidth, width)) ELSE height>>

\* _fit_dimensions
FitDimensions(width, height) ==
  LET w == IF width > MaxWidth THEN MaxWidth ELSE width
      h == IF width > MaxWidth THEN Round(height * MaxWidth, width) ELSE height
  IN  IF h > MaxHeight
        THEN <<AtLeastOne(Round(w * MaxHeight, h)), AtLeastOne(MaxHeight)>>
        ELSE <<AtLeastOne(w), AtLeastOne(h)>>

\* int(n * DOWNSCALE_FACTOR), but never below 1
Shrunk(n) == AtLeastOne((3 * n) \div 4)

\* _next_dimensions
NextDimensions(d) ==
  LET next == <<Shrunk(d[1]), Shrunk(d[2])>>
  IN  IF next = d THEN <<1, 1>> ELSE next

\* The dimensions of the image after k turns of the loop of process_image.
DimensionsAfter(d, k) ==
  LET after[i \in 0..k] == IF i = 0 THEN d ELSE NextDimensions(after[i - 1])
  IN  after[k]

\* _best_encoded_candidate: the first size below the limit, or the least.
BestCandidate(sizes) ==
  LET fitting == {i \in DOMAIN sizes : sizes[i] < MaxBase64Bytes}
  IN  IF fitting # {} THEN sizes[CHOOSE i \in fitting : \A j \in fitting : i <= j]
      ELSE CHOOSE n \in Range(sizes) : \A m \in Range(sizes) : n <= m

\* _apply_exif_orientation: a quarter turn swaps width and height.
Oriented(source) ==
  IF source.turned THEN <<source.height, source.width>> ELSE <<source.width, source.height>>

Fitted(source) == FitDimensions(Oriented(source)[1], Oriented(source)[2])

\* The image's bytes after k turns: the file's own (or their oriented form)
\* while it has not been resized.
SizeAfter(source, encoded, k) ==
  IF k = 0 /\ Fitted(source) = Oriented(source) THEN source.size
  ELSE BestCandidate(encoded[k])

\* process_image, encoded[k] being the candidates' sizes in the k-th turn.  Its
\* loop ends by an image that fits, or in an error at 1x1, or (_shrink_by_factor)
\* at dimensions that do not shrink.
ProcessImage(source, encoded) ==
  LET Fits(k) == SizeAfter(source, encoded, k) < MaxBase64Bytes
      D(k) == DimensionsAfter(Fitted(source), k)
      Stops(k) == Fits(k) \/ D(k) = <<1, 1>> \/ NextDimensions(D(k)) = D(k)
      last == CHOOSE k \in DOMAIN encoded :
                Stops(k) /\ \A j \in DOMAIN encoded : j < k => ~Stops(j)
  IN  [error |-> ~Fits(last), dimensions |-> D(last), turns |-> last,
       resized |-> last > 0 \/ Fitted(source) # Oriented(source)]

-----------------------------------------------------------------------------
\* Every image ends in the box and below the byte limit, as large as the steps
\* allow, or is refused, and it is refused only after no encoding of a single
\* pixel fitted.  Without a note (resized) its pixels are the original's.
ImageFitsOrFails(source, encoded) ==
  LET image == ProcessImage(source, encoded)
      Below(k) == IF k = 0 /\ Fitted(source) = Oriented(source)
                    THEN source.size < MaxBase64Bytes
                  ELSE \E i \in DOMAIN encoded[k] : encoded[k][i] < MaxBase64Bytes
  IN  /\ image.dimensions \in (1..MaxWidth) \X (1..MaxHeight)
      /\ image.error = ~Below(image.turns)
      /\ image.error => image.dimensions = <<1, 1>>
      /\ \A k \in 0..(image.turns - 1) : ~Below(k)
      /\ ~image.resized => image.dimensions = Oriented(source)
=============================================================================
