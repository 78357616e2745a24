-------------------------------- MODULE Grid --------------------------------
(***************************************************************************)
(* The image the denoising programs work on: a colour image read by        *)
(* imread, surrounded by a border of PADDING pixels by copyMakeBorder, and *)
(* the 5-point mean every filter of the repository computes.               *)
(*                                                                         *)
(* A cell <<i, j, k>> is channel k of the pixel in row i and column j of   *)
(* the padded image.  A Kokkos view of the image is a function on Cells; a *)
(* cv::Mat is its data pointer: a function on the byte offsets of the      *)
(* padded image, row after row, the channels of a pixel side by side.      *)
(***************************************************************************)
EXTENDS Integers

CONSTANTS
  Rows,      \* img.rows
  Cols,      \* img.cols
  Channels   \* img.channels(): 3 for IMREAD_COLOR

ASSUME GridAssumption ==
  /\ Rows \in Nat \ {0}
  /\ Cols \in Nat \ {0}
  /\ Channels \in Nat \ {0}

PADDING == 1

PadRows == Rows + 2 * PADDING
PadCols == Cols + 2 * PADDING

Byte == 0 .. 255

\* The elements of mGaussian_noise, a CV_16SC3 Mat.
Short == -32768 .. 32767

Cells == (0 .. PadRows - 1) \X (0 .. PadCols - 1) \X (0 .. Channels - 1)

\* The cells of the image inside the border, in padded coordinates.
Inner == (PADDING .. Rows) \X (PADDING .. Cols) \X (0 .. Channels - 1)

Ring == Cells \ Inner

\* The cells of the image before the border is added.
Pixels == (0 .. Rows - 1) \X (0 .. Cols - 1) \X (0 .. Channels - 1)

Views == [Cells -> Byte]

(***************************************************************************)
(* Byte offsets of the padded image.                                       *)
(***************************************************************************)
PadSize == PadRows * PadCols * Channels

Index(c) == (c[1] * PadCols + c[2]) * Channels + c[3]

CellAt(n) == << (n \div Channels) \div PadCols,
                (n \div Channels) % PadCols,
                n % Channels >>

Mats == [0 .. PadSize - 1 -> Byte]

(***************************************************************************)
(* copyMakeBorder(img, image_pad, 1, 1, 1, 1, BORDER_CONSTANT, Scalar(0))  *)
(* and the crop image_pad(roi).clone() that undoes it.                     *)
(***************************************************************************)
Shifted(c) == <<c[1] - PADDING, c[2] - PADDING, c[3]>>

\* Mutant of MakeBorder: the border is white.
WhiteBorder(img) ==
  [n \in 0 .. PadSize - 1 |->
     IF CellAt(n) \in Inner THEN img[Shifted(CellAt(n))] ELSE 255]

MakeBorder(img) ==
  [n \in 0 .. PadSize - 1 |->
     IF CellAt(n) \in Inner THEN img[Shifted(CellAt(n))] ELSE 0]

\* Mutant of Crop: the region of interest starts in the corner of the border.
CropFromCorner(mat) == [p \in Pixels |-> mat[Index(p)]]

Crop(mat) ==
  [p \in Pixels |-> mat[Index(<<p[1] + PADDING, p[2] + PADDING, p[3]>>)]]

\* Mutant of Mean5: the pixel itself is not counted in the divisor.
QuarterSum(img, c) ==
  LET i == c[1]
      j == c[2]
      k == c[3]
  IN  (img[<<i, j, k>>] + img[<<i, j - 1, k>>] + img[<<i, j + 1, k>>]
         + img[<<i - 1, j, k>>] + img[<<i + 1, j, k>>]) \div 4

(***************************************************************************)
(* The stencil: (pixel + left + right + up + down) * 0.2, stored in a      *)
(* uint8_t.  The sum of five bytes is computed in int, and for every sum   *)
(* in 0 .. 1275 the double product truncates to the integer quotient by 5. *)
(***************************************************************************)
Mean5(img, c) ==
  LET i == c[1]
      j == c[2]
      k == c[3]
  IN  (img[<<i, j, k>>] + img[<<i, j - 1, k>>] + img[<<i, j + 1, k>>]
         + img[<<i - 1, j, k>>] + img[<<i + 1, j, k>>]) \div 5
=============================================================================
