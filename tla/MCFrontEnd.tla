------------------------------ MODULE MCFrontEnd ------------------------------
(* Input files for RegexLexer: each is put together from parts of which both the text *)
(* and what it stands for are known.                                                  *)
EXTENDS RegexLexer

\* The codes of the characters of s, the first being n.
Numbered(s, n) == [c \in {SubSeq(s, i, i) : i \in 1..Len(s)} |-> n - 1 + CHOOSE i \in 1..Len(s) : SubSeq(s, i, i) = c]
Codes == Numbered(" !\"#$%&'()*+,-./0123456789:;<=>?@ABCDEFGHIJKLMNOPQRSTUVWXYZ[\\]^_", 32)
         @@ Numbered("abcdefghijklmnopqrstuvwxyz{|}~", 97)
A(s) == LET codes == Codes IN [i \in 1..Len(s) |-> codes[SubSeq(s, i, i)]]

-----------------------------------------------------------------------------
(* Parts of expressions: their text, and their tokens *)

Tok(name, ch) == [tok |-> name, lexeme |-> ch, set |-> {}, neg |-> FALSE]
Lit(ch) == <<Tok("L", ch)>>
Lits(s) == [i \in 1..Len(s) |-> Tok("L", A(s)[i])]
Ops(s) == [i \in 1..Len(s) |-> Tok(Tokmap(A(s)[i]), A(s)[i])]
Ccl(chars, negated) == <<[tok |-> "CCL", lexeme |-> NUL, set |-> chars, neg |-> negated]>>
Part(s, toks1) == [text |-> A(s), toks |-> toks1]

Digit == Ccl(48..49, FALSE)

\* The macros of Heads: D a class, N one with D in it, I one with N.
MacroParts ==
    { Part("{D}", Digit), Part("{N}", Digit \o Ops("+")),
      Part("{I}x{D}", Ops("(") \o Digit \o Ops("+|") \o Lits("-") \o Ops(")") \o Lits("x") \o Digit) }

PlainParts ==
    { Part("ab", Lits("ab")), Part("(a|b)*.?", Ops("(") \o Lits("a") \o Ops("|") \o Lits("b") \o Ops(")*.?")),
      Part("\\n\\101\\x42a\\^A\\s\\*", Lit(10) \o Lit(65) \o Lit(1066) \o Lit(1) \o Lits(" *")),
      Part("[a-c\\]\\-]", Ccl({97, 98, 99, 93, 45}, FALSE)), Part("[^\"{\"]", Ccl({10, 123}, TRUE)),
      Part("[]+", Ccl(0..32, FALSE) \o Ops("+")), Part("^^", Ops("^^")) }

QuotedParts ==
    { Part("\"+{ \"", Lits("+{ ")), Part("x\"a\\\"\\n\"", Lits("xa\"\\n")) }

Parts == MacroParts \union PlainParts \union QuotedParts

\* A macro, or a quote, right behind a closing quote is not taken for one.
Then(u, v) == [text |-> u.text \o v.text, toks |-> u.toks \o v.toks]
Two == {Then(u, v) : u \in MacroParts \union PlainParts, v \in Parts}
       \union {Then(u, v) : u \in QuotedParts, v \in PlainParts}

Start(part) == Then(Part("^", Ops("^")), part)
End(part) == Then(part, Part("$", Ops("$")))

-----------------------------------------------------------------------------
(* Rules: their lines, tokens and code *)

ARule(part, blank, code, shared) ==
    [lines |-> <<part.text \o A(blank \o code)>>, toks |-> part.toks, code |-> A(code), shared |-> shared]
Joined(part, more) ==
    LET one == ARule(part, " ", "c{", FALSE)
    IN  [one EXCEPT !.lines = @ \o more,
                    !.code = Trimmed(FoldLeft(LAMBDA s, line : s \o <<NL>> \o line, @, more))]
Bar(part) == ARule(part, " ", "|", TRUE)

\* The line of a rule is its first line, behind the blank lines before it.
Rules(list, before, blank) ==
    [k \in 1..Len(list) |->
        [toks |-> list[k].toks, code |-> list[k].code, shared |-> list[k].shared,
         line |-> before + blank + 1 + FoldLeft(LAMBDA n, r : n + Len(r.lines), 0, SubSeq(list, 1, k - 1))]]

Lines(list) == FoldLeft(LAMBDA s, r : s \o r.lines, <<>>, list)

-----------------------------------------------------------------------------
(* Files: a head, [lines, copied], rules, and a tail *)

Macros == <<A("D q"), A("D   [0-1] "), A("N {D}+"), A("I ({N}|\\-)")>>
Comment == <<A("/* E x"), A("F y %%"), A(" z */ %% "), A(" /**/")>>
Block == <<A("%{"), A("/* c"), A("x %%"), A("%d"), A("%}")>>

CommentCopied == <<<<>>, <<>>, A("      %%"), <<>>>>
Blank(n) == [k \in 1..n |-> <<>>]

Heads ==
    { [lines |-> Macros, copied |-> Blank(4)],
      [lines |-> Macros \o Comment, copied |-> Blank(4) \o CommentCopied],
      [lines |-> Block \o Macros \o <<A(" int i; /* c */")>>,
       copied |-> <<A("/* c"), A("x %%")>> \o Blank(4) \o <<A(" int i;")>>],
      [lines |-> <<A(" /* c"), A("*/ */")>> \o Macros \o Block \o Comment \o Block,
       copied |-> <<<<>>, A("   */")>> \o Blank(4) \o <<A("/* c"), A("x %%")>> \o CommentCopied
                  \o <<A("/* c"), A("x %%")>>] }

OneHead == {[lines |-> Macros, copied |-> Blank(4)]}

Tails == {<<>>, <<A("int f()"), A("%%"), <<>>>>}

File(head1, before, list, tail1, fails) ==
    [lines |-> head1.lines \o <<A("%%")>> \o before \o Lines(list) \o <<A("%%")>> \o tail1,
     rules |-> Rules(list, Len(head1.lines) + 1, Len(before)),
     copied |-> head1.copied \o <<<<>>>> \o tail1, fails |-> fails]

\* One rule of one or two parts, with anchors; and files of three rules.
Expressions ==
    {File(head1, <<>>, <<ARule(part, " ", "c", FALSE)>>, <<>>, "none") :
        head1 \in OneHead, part \in UNION {{e, Start(e), End(e), Start(End(e))} : e \in Parts} \union Two}

FewParts == {Part("ab", Lits("ab")), Part("{N}", Digit \o Ops("+")), Part("\"+{ \"", Lits("+{ "))}

FirstRules == {ARule(q, " ", "c", FALSE) : q \in FewParts} \union {Bar(q) : q \in FewParts}
              \union {Joined(q, <<A("  d"), <<>>, A(" }"), <<>>>>) : q \in FewParts}
SecondRules == {ARule(q, "", "", FALSE) : q \in FewParts}
               \union {Bar(End(q)) : q \in FewParts} \union {Joined(q, <<<<>>>>) : q \in FewParts}

\* Blank lines come before a first rule of which the line is not kept: see BlankBefore.
WholeFiles ==
    {File(head1, IF r1.shared THEN Blank(Len(tail1)) ELSE <<>>, <<r1, r2, ARule(Part("{D}", Digit), " ", "e", FALSE)>>, tail1, "none") :
        head1 \in Heads, r1 \in FirstRules, r2 \in SecondRules, tail1 \in Tails}

\* Files with an error, in the second rule or in a macro.
Broken(s, toks1, fails) ==
    File([lines |-> Macros \o <<A("R b{R}"), A("C {D")>>, copied |-> Blank(6)], <<>>,
         <<ARule(Part("ab", Lits("ab")), " ", "c", FALSE), ARule([text |-> A(s), toks |-> toks1], "", "", FALSE)>>,
         <<>>, fails)

Errors ==
    { Broken("a{D", <<>>, "badmac"), Broken("a{C} b", <<>>, "badmac"), Broken("{X} c", <<>>, "nomac"), Broken("{R}", <<>>, "macdepth"),
      Broken("a\"b c", Lits("ab c"), "newline"), Broken("(a(b) c", <<>>, "paren"), Broken("(a$) c", <<>>, "paren"),
      Broken("a  0123456789012345678901234567890123456789012345", <<>>, "strings"),
      Broken("[a-] c", <<>>, "warning"), Broken("[-a] c", <<>>, "warning"), Broken("^ c", <<>>, "crash"), Broken("[a c", <<>>, "crash"),
      Broken("0123456789012345678901234567890123456789012345678901234567890123456789", <<>>, "too long"),
      [lines |-> <<A("%%"), A(" "), A("%%")>>, rules |-> <<>>, copied |-> <<>>, fails |-> "crash"],
      [File([lines |-> <<A("D")>>, copied |-> <<>>], <<>>, <<>>, <<>>, "badmac") EXCEPT !.rules = <<>>],
      [File([lines |-> <<>>, copied |-> <<>>], <<>>,
            <<ARule([text |-> A("{D}"), toks |-> <<>>], " ", "c", FALSE)>>, <<>>, "nomac") EXCEPT !.rules = <<>>],
      [File([lines |-> <<>>, copied |-> <<>>], <<>>,
            [k \in 1..5 |-> ARule(Part("a", Lits("a")), " ", "c", FALSE)], <<>>, "length") EXCEPT !.copied = <<>>] }

\* Without a first or a second %% the line read last is a rule again and again.
Repeated == [k \in 1..4 |-> [toks |-> Lits("D"), code |-> <<>>, shared |-> FALSE, line |-> 2]]
Unmarked ==
    {[lines |-> <<A("D q")>>, rules |-> Repeated, copied |-> <<>>, fails |-> "length"],
     [lines |-> <<A("%%"), A("D")>>, rules |-> Repeated, copied |-> <<>>, fails |-> "length"]}

\* A macro whose text ends with a quote, named in the middle of a rule.
QuoteInMacro ==
    {File([lines |-> <<A("Q \"a\"")>>, copied |-> Blank(1)], <<>>,
          <<ARule(Part("{Q}b", Lits("ab")), " ", "c", FALSE)>>, <<>>, "none")}

\* A first rule behind blank lines.
BlankBefore ==
    {File([lines |-> <<>>, copied |-> <<>>], Blank(2), <<ARule(Part("ab", Lits("ab")), " ", "c", FALSE)>>, <<>>, "none")}

\* The files that Regular (RegexLexerProofs) is about: an escape cut off by the end of its
\* line, an expression that ends in a macro, and no room for a rule without code.
Irregular(macro, list) ==
    {File([lines |-> macro, copied |-> Blank(Len(macro))], <<>>, list, <<>>, "none")}

EscapeAtEnd == Irregular(<<>>, <<ARule(Part("a\\", Lits("a\\")), "", "", FALSE)>>)
SpaceInMacro ==
    Irregular(<<A("S a b")>>, <<ARule(Part("{S}", Lits("a")), " ", "", FALSE), ARule(Part("c", Lits("c")), " ", "", FALSE)>>)
BlockFull ==
    Irregular(<<>>, <<ARule(Part("a", Lits("a")), " ", "01234567890123456789012345678901234567890123", FALSE),
                      ARule(Part("b", Lits("b")), "", "", FALSE)>>)

MCFiles == Expressions \union WholeFiles \union Errors \union Unmarked

=============================================================================
