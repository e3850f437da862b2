----------------------------- MODULE MCParsers -----------------------------
(* Small instances of Parsers for TLC. *)
EXTENDS Parsers

Form(begin, tokens, most, end) ==
    [begin |-> begin, tokens |-> tokens, most |-> most, end |-> end]

\* Expressions of each group of operators, calls and arguments, statements.
MCForms ==
    { Form(<<>>, {"name", "=", "or", "and", "=="}, 6, <<";">>),
      Form(<<>>, {"value", "<", "-", "*", "!"}, 6, <<";">>),
      Form(<<>>, {"name", "=", "-", "*", "and"}, 6, <<";">>),
      Form(<<"name">>, {"name", "(", ")", ",", "="}, 6, <<";">>),
      Form(<<>>, {"async", "await", "name", "(", ")", "-"}, 5, <<";">>),
      Form(<<>>, {"var", "name", "=", "print", "return", ";"}, 5, <<";">>),
      Form(<<"name", "(">>, {"await", "name", ",", "+", "=", ")"}, 5, <<")", ";">>),
      Form(<<>>, {"await", "async", "+", "-", "name", "=", "("}, 5, <<";">>),
      Form(<<"for", "(">>, {"var", "name", "=", ";", ")"}, 5, <<";", ")", ")", "name", ";">>),
      Form(<<"for", "(", ";", ";">>, {"name", ";", ")"}, 6, <<"name", ";">>),
      Form(<<"fun", "name", "(">>, {"name", ",", ")", "{", "}", "return", ";"}, 5, <<"}">>),
      Form(<<"if", "(", "name", ")">>, {"name", "if", "while", "(", ")", "else", ";"}, 5, <<";">>),
      Form(<<"if", "(", "name", ")", "if", "(", "name", ")", "name", ";", "else">>,
           {"name", "else", "{", "}", ";"}, 5, <<"name", ";">>) }
=============================================================================
