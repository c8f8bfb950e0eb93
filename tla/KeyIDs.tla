------------------------------- MODULE KeyIDs -------------------------------
(***************************************************************************)
(* Key-ID templates (internal/policy/keyid.go).  A string is a sequence of *)
(* characters; a character is "$", "{", "}" or stands for all those that   *)
(* the same regular expressions accept.                                    *)
(***************************************************************************)
EXTENDS Naturals, SequencesExt

CONSTANTS
    NameChars,          \* claimNameRe: [a-z0-9_]
    KeyIDChars,         \* keyIDValueRe and keyIDLiteralRe: [A-Za-z0-9._/:@-]
    MaxKeyIDLength,
    NonString           \* a claim that is present but no string

ASSUME KeyIDAssumption ==
    /\ NameChars \subseteq KeyIDChars
    /\ {"$", "{", "}"} \cap KeyIDChars = {}
    /\ MaxKeyIDLength \in Nat

Only(s, chars) == \A i \in DOMAIN s : s[i] \in chars

\* The "}" that closes a variable opened at i, if one does.
Closers(s, i) == { j \in (i + 2)..Len(s) : s[i] = "$" /\ s[i + 1] = "{" /\ s[j] = "}" }

\* What templateVarRe finds at i: a variable ${...}, or the next character of
\* the text between them.
PieceEnd(s, i) == IF Closers(s, i) = {} THEN i ELSE Min(Closers(s, i))
PieceAt(s, i) ==
    IF Closers(s, i) = {} THEN [isVar |-> FALSE, text |-> <<s[i]>>]
    ELSE [isVar |-> TRUE, text |-> SubSeq(s, i + 2, PieceEnd(s, i) - 1)]

\* A template from left to right.
Pieces(s) ==
    LET from[i \in 1..(Len(s) + 1)] ==
          IF i > Len(s) THEN <<>> ELSE <<PieceAt(s, i)>> \o from[PieceEnd(s, i) + 1]
    IN from[1]

\* The checks of templateVars.  A "$" that opens no variable is not a
\* KeyIDChar.  (Mutant: only "$" is looked for outside the variables.)
DollarsOnly(chars) == chars # <<"$">>
LiteralOK(chars) == Only(chars, KeyIDChars)

TemplateOK(tmpl) ==
    \A i \in DOMAIN Pieces(tmpl) :
        LET piece == Pieces(tmpl)[i] IN
        IF piece.isVar THEN piece.text # <<>> /\ Only(piece.text, NameChars)
                       ELSE LiteralOK(piece.text)

\* The claims a template names.
TemplateVars(tmpl) ==
    { Pieces(tmpl)[i].text : i \in { k \in DOMAIN Pieces(tmpl) : Pieces(tmpl)[k].isVar } }

\* A claim that a key ID may contain.
Clean(claims, name) == /\ name \in DOMAIN claims
                       /\ claims[name] # NonString
                       /\ claims[name] # <<>>
                       /\ Only(claims[name], KeyIDChars)

ClaimsClean(tmpl, claims) ==
    \A i \in DOMAIN Pieces(tmpl) :
        Pieces(tmpl)[i].isVar => Clean(claims, Pieces(tmpl)[i].text)

Expanded(tmpl, claims) ==
    LET pieces == Pieces(tmpl) IN
    FlattenSeq([i \in DOMAIN pieces |->
                   IF pieces[i].isVar THEN claims[pieces[i].text] ELSE pieces[i].text])

\* What stops an expansion: a claim, the length or the re-check at the end.
ExpandError(tmpl, claims) ==
    IF ~ClaimsClean(tmpl, claims) THEN "claim"
    ELSE LET out == Expanded(tmpl, claims) IN
         IF Len(out) > MaxKeyIDLength THEN "length"
         ELSE IF out = <<>> \/ ~Only(out, KeyIDChars) THEN "recheck" ELSE "none"
=============================================================================
