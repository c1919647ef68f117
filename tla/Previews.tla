------------------------------ MODULE Previews ------------------------------
(***************************************************************************)
(* How much of a value the front ends show: render_field_value and what it *)
(* calls in the command line, format_value and what it calls in the GUI.   *)
(*                                                                         *)
(* A text is what a lossy decoding made of the bytes of a field.  Of each  *)
(* of its characters only two lengths matter: raw, the bytes of the file   *)
(* it stands for, and width, its own bytes.  They differ for a replacement *)
(* character, which is 3 bytes wide and stands for up to 3 bytes.          *)
(***************************************************************************)
EXTENDS Naturals, Sequences

CONSTANT MaxDisplay    \* MAX_DISPLAY_BYTES

Char == {[raw |-> n, width |-> n] : n \in 1 .. 4}
        \cup {[raw |-> n, width |-> 3] : n \in 1 .. 3}

ASSUME DisplayAssumption == MaxDisplay \in Nat

(* The sums of the first 0, 1, .. n of the lengths.                        *)
Totals(lengths, n) ==
    LET sum[k \in 0 .. n] == IF k = 0 THEN 0 ELSE sum[k - 1] + lengths[k]
    IN sum

Widths(text) == Totals([k \in 1 .. Len(text) |-> text[k].width], Len(text))
RawLength(text) ==
    Totals([k \in 1 .. Len(text) |-> text[k].raw], Len(text))[Len(text)]

Least(m, n) == IF m <= n THEN m ELSE n

(* A preview: how many characters or bytes are shown, and whether dots and *)
(* the length of the field follow them.                                    *)
Preview(shown, more) == [shown |-> shown, more |-> more]

(* The characters of the text that fit into a number of bytes: the loop    *)
(* stops for good at the first that does not.                              *)
KeptNothing == [used |-> 0, shown |-> 0, open |-> TRUE]

Keep(kept, ch, max) ==
    IF kept.open /\ kept.used + ch.width <= max
    THEN [used |-> kept.used + ch.width, shown |-> kept.shown + 1, open |-> TRUE]
    ELSE [used |-> kept.used, shown |-> kept.shown, open |-> FALSE]

render_ascii_preview(text, max) ==
    LET after[k \in 0 .. Len(text)] ==
          IF k = 0 THEN KeptNothing ELSE Keep(after[k - 1], text[k], max)
    IN after[Len(text)].shown

render_ascii(text, byte_len, full) ==
    IF full \/ byte_len <= MaxDisplay THEN Preview(Len(text), FALSE)
    ELSE Preview(render_ascii_preview(text, MaxDisplay), TRUE)

render_bytes(bytes, byte_len, full) ==
    IF full \/ byte_len <= MaxDisplay THEN Preview(Len(bytes), FALSE)
    ELSE Preview(Least(Len(bytes), MaxDisplay), TRUE)

(* Bug: the preview skips a wide character and goes on behind it.          *)
SkippingAsciiPreview(text, byte_len) ==
    IF byte_len <= MaxDisplay THEN Preview(Len(text), FALSE)
    ELSE Preview(Least(Len(text), MaxDisplay), TRUE)

format_ascii_preview(text, byte_len) ==
    IF byte_len <= MaxDisplay THEN Preview(Len(text), FALSE)
    ELSE Preview(render_ascii_preview(text, MaxDisplay), TRUE)

format_bytes_preview(bytes, byte_len) ==
    Preview(IF byte_len <= MaxDisplay THEN Len(bytes)
            ELSE Least(Len(bytes), MaxDisplay),
            byte_len > MaxDisplay)

(* Values, as far as the renderings tell them apart.                       *)
Number == [kind |-> "number"]
Float(finite) == [kind |-> "float", finite |-> finite]
Bytes(bytes) == [kind |-> "bytes", content |-> bytes]
Ascii(text) == [kind |-> "ascii", content |-> text]

Value == {Number} \cup {Float(finite) : finite \in BOOLEAN}
         \cup [kind : {"bytes"}, content : Seq(Nat)]
         \cup [kind : {"ascii"}, content : Seq(Char)]

IsRun(value) == value.kind \in {"bytes", "ascii"}

render_field_value(value, byte_len, full) ==
    CASE value.kind = "bytes" -> render_bytes(value.content, byte_len, full)
      [] value.kind = "ascii" -> render_ascii(value.content, byte_len, full)
      [] OTHER -> value

format_value(value, byte_len) ==
    CASE value.kind = "bytes" -> format_bytes_preview(value.content, byte_len)
      [] value.kind = "ascii" -> format_ascii_preview(value.content, byte_len)
      [] OTHER -> value

(* JSON has no number for an infinite value or for one that is none.       *)
render_json_value(value, byte_len, full) ==
    IF value.kind = "float" /\ ~value.finite THEN [kind |-> "null"]
    ELSE render_field_value(value, byte_len, full)
=============================================================================
