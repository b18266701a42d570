------------------------------- MODULE Images -------------------------------
(***************************************************************************)
(* The image processor (src/internal/processor/image.go): what Process     *)
(* makes of an upload.  An upload is abstracted to its format, to whether  *)
(* its data decode, and to its dimensions; a picture to its dimensions.    *)
(*                                                                         *)
(* A user may take the stored original and upload it again.                *)
(***************************************************************************)
EXTENDS Integers

CONSTANTS
    MaxOriginalSize,   \* 512
    ThumbSize,         \* 128
    MaxDimension,      \* 4096
    Sizes              \* bound: widths and heights of the uploads

ASSUME ImagesAssumption ==
    /\ MaxOriginalSize \in Nat \ {0}
    /\ ThumbSize \in Nat \ {0}
    /\ MaxDimension \in Nat \ {0}
    /\ Sizes \subseteq Nat

Formats == {"jpeg", "png", "webp", "other"}

Uploads == [format: Formats, intact: BOOLEAN, width: Nat, height: Nat]

NoUpload == [format |-> "other", intact |-> FALSE, width |-> 0, height |-> 0]

NoPicture == [error |-> TRUE]

VARIABLES
    source,      \* the upload that was processed last, NoUpload before the first
    result       \* what Process returned: an error, or the avatar

imageVars == <<source, result>>

Larger(a, b) == IF a >= b THEN a ELSE b
Distance(a, b) == IF a >= b THEN a - b ELSE b - a

Sized(w, h) == [width |-> w, height |-> h]

AtLeastOne(n) == IF n < 1 THEN 1 ELSE n

\* Mutation of Resize: the shorter side is not raised to 1.
ResizeFloor(pic, max) ==
    IF pic.width <= max /\ pic.height <= max THEN Sized(pic.width, pic.height)
    ELSE IF pic.width >= pic.height
         THEN Sized(max, (pic.height * max) \div pic.width)
         ELSE Sized((pic.width * max) \div pic.height, max)

\* Mutation of Resize: the quotient is rounded up.
ResizeUp(pic, max) ==
    IF pic.width <= max /\ pic.height <= max THEN Sized(pic.width, pic.height)
    ELSE IF pic.width >= pic.height
         THEN Sized(max, (pic.height * max) \div pic.width + 1)
         ELSE Sized((pic.width * max) \div pic.height + 1, max)

\* resizeImage: the longer side becomes max, the shorter follows.
Resize(pic, max) ==
    IF pic.width <= max /\ pic.height <= max THEN Sized(pic.width, pic.height)
    ELSE IF pic.width >= pic.height
         THEN Sized(max, AtLeastOne((pic.height * max) \div pic.width))
         ELSE Sized(AtLeastOne((pic.width * max) \div pic.height), max)

\* decodeImage: the first bytes choose the decoder, and its error is final.
Decodes(upload) == upload.intact /\ upload.format \in {"jpeg", "png", "webp"}

Accepted(upload) ==
    /\ Decodes(upload)
    /\ upload.width \in 1..MaxDimension
    /\ upload.height \in 1..MaxDimension

\* Process.  Both pictures are encoded as PNG, made from the source; the dimensions
\* that are stored are the original's and the content type is the source's.
Process(upload) ==
    IF Accepted(upload)
    THEN [error |-> FALSE,
          original |-> Resize(upload, MaxOriginalSize),
          thumb |-> Resize(upload, ThumbSize),
          contentType |-> upload.format]
    ELSE NoPicture

ImagesInit ==
    /\ source = NoUpload
    /\ result = NoPicture

\* Process keeps nothing between two calls, so one user's uploads are enough.
Upload ==
    /\ source = NoUpload
    /\ \E format \in Formats, intact \in BOOLEAN, w \in Sizes, h \in Sizes :
         LET upload == [format |-> format, intact |-> intact, width |-> w, height |-> h]
         IN source' = upload /\ result' = Process(upload)

\* The original is downloaded and uploaded again.
UploadAgain ==
    /\ ~result.error
    /\ LET upload == [format |-> "png", intact |-> TRUE,
                      width |-> result.original.width, height |-> result.original.height]
       IN source' = upload /\ result' = Process(upload)

ImagesNext == Upload \/ UploadAgain

ImagesSpec == ImagesInit /\ [][ImagesNext]_imageVars

-----------------------------------------------------------------------------
(***************************************************************************)
(* Properties.                                                             *)
(***************************************************************************)

\* pic is source scaled to max: it has pixels, its longer side is the bound or the
\* source's own, and its shape is the source's to within one pixel (also where the
\* integer division gives 0 and 1 is taken instead).
Scaled(pic, max) ==
    /\ pic.width \in 1..source.width
    /\ pic.height \in 1..source.height
    /\ Larger(pic.width, pic.height) =
         IF Larger(source.width, source.height) <= max
         THEN Larger(source.width, source.height) ELSE max
    /\ Distance(pic.width * source.height, pic.height * source.width)
         < Larger(source.width, source.height)

\* Both pictures of an avatar are the upload, scaled (resizeImage).
AvatarIsScaled ==
    ~result.error => /\ Scaled(result.original, MaxOriginalSize)
                     /\ Scaled(result.thumb, ThumbSize)

\* Of an avatar whose stored original is uploaded again, the content type that is
\* recorded becomes png, the format Process stores (image.go:70 records the source's),
\* and the dimensions of both pictures stay, although the thumbnail is then made from a
\* picture that has been rounded once.  It needs ThumbSize to divide MaxOriginalSize, as
\* 128 does 512.  What the resampling does to the pixels is not modelled.
AvatarIsStable ==
    [][UploadAgain => /\ ~result'.error
                      /\ result'.original = result.original
                      /\ result'.thumb = result.thumb
                      /\ result'.contentType = "png"]_imageVars
=============================================================================
