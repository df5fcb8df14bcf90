------------------------------ MODULE MCParser ------------------------------
EXTENDS Parser

Dialect(prefix, tokens, max, maxErrors) ==
  [prefix |-> prefix, tokens |-> tokens, max |-> max, errors |-> maxErrors]

MCDialects == {
  \* every level of operators
  Dialect(<<"return">>, {"id", "or", "and", "not", "<", "+", "*", "^", ";"}, 6, 1),
  \* grouping, casts, calls, members, indexes
  Dialect(<<"return">>, {"id", "(", ")", ".", "[", "]", ";"}, 6, 1),
  Dialect(<<"return">>, {"id", "i32", "u8", "(", ")", ".", "^", ";"}, 6, 1),
  Dialect(<<"return">>, {"id", "(", ")", ",", ";"}, 8, 1),
  \* literals
  Dialect(<<"return">>, {"id", "num", "true", "{", "}", ":", ",", ";"}, 10, 1),
  Dialect(<<"return">>, {"num", "[", "]", ",", ";"}, 7, 1),
  Dialect(<<"return">>, {"id", "str", "${", "}$", "+", ";"}, 9, 1),
  \* modules, and names that are types
  Dialect(<<"import", "sstr", ";">>, {"import", "u8", "id", ".", "(", ")", ";"}, 6, 1),
  Dialect(<<"import", "str", ";", "fun", "id", "(", ")", ":", "u8", "{", "set", "id", ":", "u8",
            "=", "num", ";">>, {"id", ".", "(", ")", "}", ";"}, 7, 1),
  Dialect(<<"fun", "id", "(", ")", ":", "u8", "{", "import", "str", ";">>,
          {"id", ".", "(", ")", "}", ";"}, 7, 1),
  \* aliases and types
  Dialect(<<"type", "id", "=">>, {"type", "id", "abi", "=", "u8", "[", "]", "{", "}", ":", ",", ";"}, 7, 1),
  Dialect(<<"type", "id", "=", "i32", ";", "return">>, {"(", ")", "id", "num", ";", "+"}, 6, 1),
  \* declarations and assignments
  Dialect(<<>>, {"set", "const", "id", ":", "u8", "=", "+=", "num", ";"}, 7, 1),
  Dialect(<<>>, {"id", "=", "+=", "*=", "++", "num", ".", "(", ";"}, 6, 1),
  \* functions
  Dialect(<<>>, {"export", "extern", "fun", "id", "(", ")", ":", "u8", ";"}, 8, 1),
  Dialect(<<"fun", "id", "(">>, {"id", ":", "u8", "...", ",", ")", "{", "}"}, 12, 1),
  Dialect(<<"extern", "fun", "id", "(", ")", ":", "u8">>, {"link", "abi", "str", "id", ";"}, 6, 1),
  Dialect(<<>>, {"link", "str", "id", ";", "num"}, 5, 2),
  \* control flow
  Dialect(<<"if", "id">>, {"if", "else", "id", "{", "}", ";"}, 10, 1),
  Dialect(<<"while">>, {"while", "true", "break", "continue", "return", "{", "}", ";"}, 8, 1),
  Dialect(<<"for", "set", "id", "=", "num", ";">>, {"id", "<", "num", "=", "++", "+=", "*=", "{", "}", ";"}, 7, 1),
  \* recovery
  Dialect(<<>>, {"if", "id", "{", "}", "break", ";"}, 5, 3)
}
=============================================================================
