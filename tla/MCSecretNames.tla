---------------------------- MODULE MCSecretNames ----------------------------
(* Every text of a bounded length, typed one character at a time.            *)
EXTENDS SecretNames

CONSTANT MaxText     \* bound on the length of a text

VARIABLE text

TextInit == text = <<>>

Type == Len(text) < MaxText /\ \E c \in Characters : text' = Append(text, c)

\* A text is given up and another one is typed.
GiveUp == text # <<>> /\ text' = <<>>

TextNext == Type \/ GiveUp

TextSpec == TextInit /\ [][TextNext]_text

(* A name that is not empty keeps its meaning when it is formatted again:    *)
(* the name in a OnePasswordItem or an annotation, once formatted, is stable.*)
NameIsIdempotent == FormatSecretName(FormatSecretName(text)) = FormatSecretName(text)

(* Formatting yields characters that Kubernetes accepts, within the length   *)
(* it accepts, and never loses all of a text that has a usable character.    *)
NameKeepsContent ==
    LET name == FormatSecretName(text)
    IN  /\ AllIn(name, NameCharacters)
        /\ Len(name) <= MaxLength
        /\ (\E k \in DOMAIN text : k <= MaxLength /\ text[k] \in {"a", "A"}) => name # <<>>

(* The same for the keys of the data, but that a key is not cut to nothing:  *)
(* it is empty only if no character of the label is acceptable.              *)
KeyKeepsContent ==
    LET key == FormatSecretDataName(text)
    IN  /\ AllIn(key, KeyCharacters)
        /\ Len(key) <= MaxLength
        /\ key = <<>> <=> AllIn(text, {"?"})

===============================================================================
