-------------------------- MODULE InterfaceFormats --------------------------
(***************************************************************************)
(* What InterfaceComponentDef::decode (config_types/InterfaceTypes.cpp)     *)
(* reads: one component of an interface, which is not a list of opcodes but  *)
(* a header and a tail.  The type byte is also the version: it says which    *)
(* parts are there.                                                          *)
(*                                                                            *)
(* Shapes are those of Formats.  A colour read byte by byte is four bytes;     *)
(* the bits of a flag byte are left in it.                                    *)
(***************************************************************************)
EXTENDS Formats

Not1 == Leaf("u1not")                   \* ~readUnsignedByte()
Is1  == Leaf("is1")                     \* readUnsignedByte() == 1
Four == <<U1, U1, U1, U1>>

\* Some shapes, if the version has them.
When(condition, shapes) == IF condition THEN shapes ELSE <<>>

\* The body if any byte is left, the body at most n times while `need` bytes are,
\* and the number of those times itself read.
IfAny(body) == [Leaf("ifAny") EXCEPT !.body = body]
Upto(n, need, body) == [Leaf("upto") EXCEPT !.n = n, !.need = need, !.body = body]
CountUpto(count, need, body) ==
  [Leaf("countUpto") EXCEPT !.count = count, !.need = need, !.body = body]

\* A vector whose count is cut to the number of bytes left (clampCount); labels
\* that are followed by as many ids (if the second count agrees); labels that
\* are followed by a map from ids to them.
Clamped(body) == [Vector("u2", body) EXCEPT !.kind = "clamped"]
ClampedThen(body, mid, extra) == [Clamped(body) EXCEPT !.mid = mid, !.extra = extra]
LabelsAndIds == Leaf("labelsAndIds")
LabelMap == Leaf("labelMap")

-----------------------------------------------------------------------------
(* Sub-records.                                                               *)

ColorState(ct) ==
  <<I4, U2, U1, Not1, U1, I4, Is1, Is1, I4>> \o When(ct >= 3, <<Is1>>) \o When(ct >= 6, Four)

TwoColorStates(ct) == ColorState(ct) \o ColorState(ct)
ThreeColorStates(ct) == ColorState(ct) \o TwoColorStates(ct)

Hover(ct) == <<Is1, Is1, U1, U1>> \o ThreeColorStates(ct)

TextInfo(ct) ==
  <<SmartInt>> \o When(ct >= 2, <<U1>>) \o <<String, U1, U1, U1, U1, I4, Not1, U1>>

EventScripts == CountUpto("u1", 7, <<U3, I4>>)

\* After the two modes and the two alignments come the aspect sizes, if either
\* mode is 4; after the options and cursors, the event scope, if the mask has
\* any of bits 11 to 17.
Header(ct) ==
  <<U2, U2, U2, U2, Leaf("widthMode"), U2, U1>> \o When(ct >= 6, <<I4>>) \o When(ct >= 9, <<U1>>)
  \o <<[Leaf("eventMask") EXCEPT !.count = IF ct >= 6 THEN "i4" ELSE "u3"], Id, EventScripts>>

-----------------------------------------------------------------------------
(* Tails.                                                                     *)

tailSprite(ct) == ColorState(ct)
tailRadialProgress(ct) == <<Not1, I4>> \o ColorState(ct)
tailModel == <<SmartInt, Leaf("modelFlags")>>
tailButton(ct) == <<U1, U1, U1, Is1, Is1>> \o Four \o <<Not1, I4>> \o Hover(ct) \o TextInfo(ct)
tailBox == <<I4, Is1, Not1>>
tailLine == <<U1, I4, Is1>>
tailPanel == <<U2, U2, Is1, U1>>
tailGroupBox(ct) ==
  <<U2, U2, U1, U1, U1, U1, U1, U1>> \o Four \o <<Not1, I4>> \o TextInfo(ct) \o TwoColorStates(ct)
tailGrid == <<U2, U2, U1, U2, U2, Is1>>
tailCutScene(ct) ==
  <<U2, U2>> \o When(ct >= 9, Four) \o When(ct >= 6 /\ ct < 9, <<U2, U2, U2, U2>>)
tailCombo(ct) ==
  <<U1, U1, U1, U1, U1, LabelsAndIds, U2>> \o Four \o Four \o <<Not1, I4>>
  \o ThreeColorStates(ct) \o TextInfo(ct) \o Hover(ct)
tailInput(ct) ==
  <<U1, U1, U1, Leaf("maxLength")>> \o When(ct >= 9, Four \o <<U1>>)
  \o When(ct >= 7 /\ ct < 9, <<U1>>) \o <<Not1, I4>> \o ColorState(ct) \o TextInfo(ct) \o Hover(ct)
tailList(ct) ==
  <<U1, U1, U1, U1, U1, U1, U1>> \o When(ct >= 9, <<U1>>)
  \o <<U1, LabelsAndIds, Clamped(<<U2>>)>> \o When(ct >= 9, Four \o Four)
  \o <<Not1, I4>> \o ThreeColorStates(ct) \o TextInfo(ct) \o Hover(ct)
tailSlider(ct) ==
  <<U1, I4, I4, I4, I4, I4, Clamped(<<String>>), U2, U2, U2, U2, U2, U2, Not1, I4>>
  \o TextInfo(ct) \o ThreeColorStates(ct)
tailCarousel(ct) ==
  <<U1, ClampedThen(<<String>>, <<Clamped(<<I4>>), U2>>, <<I4>>), U2, U2, U2, U2>> \o Four
  \o <<Not1, I4>> \o TwoColorStates(ct)
tailPagedCarousel(ct) ==
  <<U1>> \o Four \o <<U2, U1, U2, U2, U2, I4, I4, U1>> \o Four \o Four \o <<Not1, I4>>
  \o ThreeColorStates(ct)
tailPagedLayer(ct) ==
  <<U1, U1, U1, CountUpto("u2", 1, <<String>>), CountUpto("u2", 4, <<I4>>)>> \o Four
  \o <<Not1, I4>> \o ColorState(ct)
tailComponent19(ct) ==
  <<U1, U2, U2, U2, U2, U2, U1>> \o Four \o Four \o <<U2, Not1, I4>>
  \o ThreeColorStates(ct) \o TextInfo(ct)
tailRadioGroup(ct) ==
  <<U1, U1, U1, U1, U1, U1, U1, ClampedThen(<<String>>, <<U2>>, <<I4>>), U1>> \o Four \o Four
  \o <<Not1, I4>> \o TextInfo(ct) \o ColorState(ct)
tailCRMView(ct) ==
  <<U1, Clamped(<<I4>>), String, U1, LabelMap>> \o When(ct >= 11, <<String, String>>)
tailComponent28 ==
  <<Clamped(<<I4, I4, I4, U1, I4, I4, I4, I4, I4, I4, U2, I4, I4, I4, U1>>), U1>>

\* The tail of a component: by its type, and for the three oldest types by its
\* subtype.  The types that are not listed have none.
readTypeTail(ct, subtype) ==
  CASE ct \in {5, 9, 16, 17, 27} -> tailSprite(ct)
    [] ct = 6 -> tailModel
    [] ct = 10 -> tailButton(ct)
    [] ct \in {11, 15} -> tailList(ct)
    [] ct = 12 -> tailCombo(ct)
    [] ct = 13 -> tailInput(ct)
    [] ct = 14 -> tailSlider(ct)
    [] ct = 18 -> tailPagedLayer(ct)
    [] ct = 19 -> tailComponent19(ct)
    [] ct = 20 -> tailCarousel(ct)
    [] ct = 21 -> tailPagedCarousel(ct)
    [] ct = 22 -> tailRadioGroup(ct)
    [] ct = 23 -> tailGroupBox(ct)
    [] ct = 24 -> tailRadialProgress(ct)
    [] ct = 26 -> tailCRMView(ct)
    [] ct = 28 -> tailComponent28
    [] ct \in {0, 3, 4} /\ subtype \in {1337, 1403} -> tailBox
    [] ct \in {0, 3, 4} /\ subtype = 1338 -> tailCutScene(ct)
    [] ct \in {0, 3, 4} /\ subtype = 1400 -> tailGrid
    [] ct \in {0, 3, 4} /\ subtype = 1401 -> tailPanel
    [] ct \in {0, 3, 4} /\ subtype = 1405 -> tailLine
    [] OTHER -> <<>>

\* A component: type, flags, name, subtype; 0xFF is a blank slot.
Component == <<IfAny(<<Leaf("componentType")>>)>>

AfterSubtype(type, subtype) ==
  IF type = 255 THEN <<>> ELSE Header(type) \o <<IfAny(readTypeTail(type, subtype))>>

=============================================================================
