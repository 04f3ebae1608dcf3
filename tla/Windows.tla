------------------------------- MODULE Windows -------------------------------
(***************************************************************************)
(* The arithmetic of the constructors of Conv2D and AveragePooling2D, with *)
(* the widths of its integers: sizes and paddings are size_t, the position *)
(* of a window is an int.                                                  *)
(***************************************************************************)
EXTENDS Integers

CONSTANTS SizeMod, IntMod  \* 2^64 and 2^32 in the build

ASSUME WidthsAssumption ==
    /\ IntMod \in Nat \ {0} /\ SizeMod \in Nat \ {0}
    /\ IntMod % 2 = 0 /\ SizeMod % IntMod = 0

SizeT(n) == n % SizeMod
ToInt(n) == ((n + IntMod \div 2) % IntMod) - IntMod \div 2

\* ceil of the quotient of two floats.
Ceil(n, d) == (n + d - 1) \div d

\* out_height_ and out_width_.
OutSize(in, window, stride, padding) ==
    IF padding = "valid" THEN Ceil(SizeT(in - window + 1), stride)
                         ELSE Ceil(in, stride)

\* pad_along_height and pad_along_width: max(x, 0) of an unsigned x is x,
\* so a stride past the window wraps.
PadAlong(in, window, stride, padding) ==
    IF padding = "valid" THEN 0
    ELSE IF in % stride = 0 THEN SizeT(window - stride)
                            ELSE SizeT(window - (in % stride))

\* pad_top_ and pad_left_.
PadBefore(in, window, stride, padding) ==
    PadAlong(in, window, stride, padding) \div 2

\* target_y and target_x: position of tap f of the window of output o.
Target(o, f, stride, pad) == ToInt(ToInt(SizeT(o * stride - pad)) + f)

\* Mutant: off by one.
OutOfRangeByOne(t, in) == t < 0 \/ t > in

\* isOutOfRangeInput, along one axis.
OutOfRange(t, in) == t < 0 \/ t >= in
=============================================================================
