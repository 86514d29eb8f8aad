----------------------------- MODULE ErrorText -----------------------------
(***************************************************************************)
(* What the errors.go files of the packages share: an error, as far as     *)
(* errors.Is, errors.As and strings.Contains tell errors apart, and the    *)
(* search of a message for phrases, first match first.  Phrases and codes  *)
(* are written with underscores for their spaces.                          *)
(***************************************************************************)
EXTENDS Sequences, Naturals, TLC, FiniteSetsExt

\* An error: what errors.Is or errors.As finds in its chain (a sentinel or the
\* code of a driver's error), and the phrases its lower-case message contains.
Error(is, text) == [is |-> is, text |-> text]

Plain == "no_known_error_in_the_chain"

\* A mistake: %v instead of %w.
WrappedAsText(err, context) == Error(Plain, err.text \cup context)

\* fmt.Errorf("...: %w", err): the chain is kept, the message grows.
Wrapped(err, context) == [err EXCEPT !.text = @ \cup context]

\* case strings.Contains(errMsg, p), for each p of phrases
Says(name, phrases) == [gives |-> name, any |-> {{p} : p \in phrases}]

\* case strings.Contains(errMsg, p) && strings.Contains(errMsg, q)
Both(name, p, q) == [gives |-> name, any |-> {{p, q}}]

\* A message that contains a phrase contains the phrases inside it.
WithInside(phrases, Inside) ==
    phrases \cup UNION {Inside[p] : p \in phrases \cap DOMAIN Inside}

\* The cases of a switch that apply to a message.
Matching(cases, text) ==
    {i \in DOMAIN cases : \E phrases \in cases[i].any : phrases \subseteq text}

\* The package's own error of that name.
Own(name, Texts) == Error(name, IF name \in DOMAIN Texts THEN Texts[name] ELSE {})

\* The switch of translateByErrorMessage.
ByMessage(err, cases, Texts) ==
    LET hits == Matching(cases, err.text)
    IN  IF hits = {} THEN err ELSE Own(cases[Min(hits)].gives, Texts)

\* What a switch over codes returns: a table gives the codes of each error.
ByCode(code, tables, default) ==
    LET hits == UNION {{e \in DOMAIN tables[i] : code \in tables[i][e]} : i \in DOMAIN tables}
    IN  IF hits = {} THEN default ELSE CHOOSE e \in hits : TRUE

CodesOf(tables) ==
    UNION {UNION {tables[i][e] : e \in DOMAIN tables[i]} : i \in DOMAIN tables}

\* GetErrorCategory: the categories list their errors.
CategoryOf(err, categories) ==
    LET hits == {c \in DOMAIN categories : err.is \in categories[c]}
    IN  IF hits = {} THEN "CategoryUnknown" ELSE CHOOSE c \in hits : TRUE

\* The messages of a switch: each single case, and each pair of cases at once.
CaseTexts(cases, Inside) ==
    LET alone == UNION {{WithInside(a, Inside) : a \in cases[i].any} : i \in DOMAIN cases}
    IN  {s \cup t : s \in alone, t \in alone} \cup {{}}
=============================================================================
