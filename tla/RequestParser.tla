---------------------------- MODULE RequestParser ----------------------------
(***************************************************************************)
(* The request_parser of a connection: a state and a character make the    *)
(* next state.  Characters are classed by what the parser tells apart.     *)
(***************************************************************************)
EXTENDS Naturals, Sequences, SequencesExt

Tokens == {"H", "T", "P", "digit", "dot", "letter"}
Controls == {"cr", "lf", "tab", "control"}
Specials == {"space", "colon", "slash", "special"}
Characters == Tokens \union Controls \union Specials \union {"high"}

NotControl == Characters \ Controls

(* Moves[s]: which characters lead where from the state s.                 *)
Moves ==
  [method_start              |-> {<<Tokens, "method">>},
   method                    |-> {<<{"space"}, "uri">>, <<Tokens, "method">>},
   uri                       |-> {<<{"space"}, "http_version_h">>, <<NotControl \ {"space"}, "uri">>},
   http_version_h            |-> {<<{"H"}, "http_version_t_1">>},
   http_version_t_1          |-> {<<{"T"}, "http_version_t_2">>},
   http_version_t_2          |-> {<<{"T"}, "http_version_p">>},
   http_version_p            |-> {<<{"P"}, "http_version_slash">>},
   http_version_slash        |-> {<<{"slash"}, "http_version_major_start">>},
   http_version_major_start  |-> {<<{"digit"}, "http_version_major">>},
   http_version_major        |-> {<<{"dot"}, "http_version_minor_start">>, <<{"digit"}, "http_version_major">>},
   http_version_minor_start  |-> {<<{"digit"}, "http_version_minor">>},
   http_version_minor        |-> {<<{"cr"}, "expecting_newline_1">>, <<{"digit"}, "http_version_minor">>},
   expecting_newline_1       |-> {<<{"lf"}, "header_line_start">>},
   header_line_start         |-> {<<{"cr"}, "expecting_newline_3">>, <<Tokens, "header_name">>},
   header_lws                |-> {<<{"cr"}, "expecting_newline_2">>, <<{"space", "tab"}, "header_lws">>,
                                  <<NotControl \ {"space"}, "header_value">>},
   header_name               |-> {<<{"colon"}, "space_before_header_value">>, <<Tokens, "header_name">>},
   space_before_header_value |-> {<<{"space"}, "header_value">>},
   header_value              |-> {<<{"cr"}, "expecting_newline_2">>, <<NotControl, "header_value">>},
   expecting_newline_2       |-> {<<{"lf"}, "header_line_start">>},
   expecting_newline_3       |-> {<<{"lf"}, "good">>}]

(* A line may only be folded behind a first header.                        *)
FoldsLine(parser, input) ==
  parser.state = "header_line_start" /\ parser.headers /\ input \in {"space", "tab"}

NewParser == [state |-> "method_start", headers |-> FALSE]

ParserStates == DOMAIN Moves \union {"good", "bad"}
Parsers == [state : ParserStates, headers : BOOLEAN]

(* The states that a character leads to: one, or none.                     *)
Targets(parser, input) == {move[2] : move \in {m \in Moves[parser.state] : input \in m[1]}}

(* consume; it stays at good and bad, where parse returns.                 *)
Consume ==
  [parser \in Parsers |-> [input \in Characters |->
     IF parser.state \in {"good", "bad"} THEN parser
     ELSE IF FoldsLine(parser, input) THEN [parser EXCEPT !.state = "header_lws"]
     ELSE LET to == Targets(parser, input)
          IN  [state |-> IF to = {} THEN "bad" ELSE CHOOSE s \in to : TRUE,
               headers |-> parser.headers \/ "header_name" \in to]]]

(* What a piece makes of a parser, character by character.                 *)
ParsePiece(parser, piece) ==
  LET after[n \in 0 .. Len(piece)] ==
        IF n = 0 THEN parser ELSE Consume[after[n - 1]][piece[n]]
  IN  after[Len(piece)]
=============================================================================
