-------------------------------- MODULE Gif ---------------------------------
(***************************************************************************)
(* gif (gif/gif.go: main, Convert): a goroutine decodes images, from files *)
(* named on standard input or from standard input itself, and main makes   *)
(* an animation of them.                                                   *)
(*                                                                         *)
(* Data.  An image is the number of its place in the input, and a delay a  *)
(* number of units of which a frame's delay counts PerDelay.               *)
(***************************************************************************)
EXTENDS Integers, SequencesExt

CONSTANTS GifInputs,       \* sequences of "image", "missing" and "junk"
          Delays, PerDelay

ASSUME GifAssumption == \A q \in GifInputs : q \in Seq({"image", "missing", "junk"})

VARIABLES pictures, byName, \* the input, and whether it is a list of names
          delay,
          piece, decoder,   \* the decoder
          frames,           \* the images converted, line
          anim, gifmain

gifVars == <<pictures, byName, delay, piece, decoder, frames, anim, gifmain>>

GifTypeOK ==
    /\ pictures \in GifInputs /\ byName \in BOOLEAN /\ delay \in Delays
    /\ piece \in 1..Len(pictures) + 1 /\ decoder \in {"decode", "send", "closed"}
    /\ gifmain \in {"range", "encode", "exit", "fatal"}

GifInit ==
    /\ pictures \in GifInputs /\ byName \in BOOLEAN /\ delay \in Delays
    /\ ~byName => \A k \in DOMAIN pictures : pictures[k] # "missing"
    /\ piece = 1 /\ decoder = "decode" /\ frames = <<>> /\ anim = <<>> /\ gifmain = "range"

NeverSkips == FALSE     \* mutant: a bad picture ends a list too
Skips == byName

\* What cannot be opened or decoded is left out of a list of names and ends a stream.
GifDecode ==
    /\ decoder = "decode"
    /\ IF piece > Len(pictures) THEN decoder' = "closed" /\ UNCHANGED piece
       ELSE IF pictures[piece] = "image" THEN decoder' = "send" /\ UNCHANGED piece
       ELSE IF Skips THEN piece' = piece + 1 /\ UNCHANGED decoder
       ELSE decoder' = "closed" /\ UNCHANGED piece
    /\ UNCHANGED <<pictures, byName, delay, frames, anim, gifmain>>

\* The rendezvous on inc; Convert draws at once, the result waits in a channel of its own.
Convert ==
    /\ decoder = "send" /\ gifmain = "range"
    /\ frames' = Append(frames, piece)
    /\ piece' = piece + 1 /\ decoder' = "decode"
    /\ UNCHANGED <<pictures, byName, delay, anim, gifmain>>

RangeEnd ==
    /\ gifmain = "range" /\ decoder = "closed"
    /\ gifmain' = "encode"
    /\ UNCHANGED <<pictures, byName, delay, piece, decoder, frames, anim>>

\* The frames with their delays; EncodeAll refuses an animation without one.
EncodeAll ==
    /\ gifmain = "encode"
    /\ anim' = [k \in DOMAIN frames |-> <<frames[k], delay \div PerDelay>>]
    /\ gifmain' = IF frames = <<>> THEN "fatal" ELSE "exit"
    /\ UNCHANGED <<pictures, byName, delay, piece, decoder, frames>>

GifNext == GifDecode \/ Convert \/ RangeEnd \/ EncodeAll

GifSpec == GifInit /\ [][GifNext]_gifVars

----------------------------------------------------------------------------
(* Properties. *)

GifEnded == gifmain \in {"exit", "fatal"}

\* The images that are wanted: those of a list of names, or of a stream as long as there
\* is nothing else in it.
Wanted == {k \in DOMAIN pictures : pictures[k] = "image" /\ (byName \/ \A l \in 1..k : pictures[l] = "image")}

\* The animation has the images of the list in their order, or those of the stream before
\* the first that is none, each once; and gif never ends well without one (gif.go:67-122).
GifRight ==
    /\ GifTypeOK
    /\ GifEnded =>
        /\ \A k, l \in DOMAIN anim : k < l => anim[k][1] < anim[l][1]
        /\ {anim[k][1] : k \in DOMAIN anim} = Wanted
        /\ gifmain = "exit" <=> anim # <<>>
=============================================================================
