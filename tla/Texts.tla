------------------------------- MODULE Texts -------------------------------
(***************************************************************************)
(* The texts of the configuration, host names above all, as far as the     *)
(* management API and the builders look into them: the words between the   *)
(* dots, and the three things spellings of one name differ in.  A text     *)
(* that is no name (a URL, a PEM block) is one word.                       *)
(***************************************************************************)
EXTENDS Sequences

CONSTANT Label

ASSUME LabelAssumption == {"ns1", "hostmaster"} \subseteq Label

\* dot: ends in a dot.  caps: has capitals.  pad: has spaces at an end.
Text == [labels : Seq(Label), dot : BOOLEAN, caps : BOOLEAN, pad : BOOLEAN]

Empty == [labels |-> <<>>, dot |-> FALSE, caps |-> FALSE, pad |-> FALSE]

\* strings.TrimSpace, and trim in the console.
Trim(t) == [t EXCEPT !.pad = FALSE]

Blank(t) == Trim(t) = Empty

\* sanitizeZoneName: what is left of a name when an object is filed under it.
Sanitize(t) == t.labels

\* normalizeDNSName: the name with its final dot; of a blank one the dot alone.
Absolute(t) == [Trim(t) EXCEPT !.dot = TRUE]

\* label + "." + t.
Under(label, t) == [t EXCEPT !.labels = <<label>> \o @]

=============================================================================
