------------------------------ MODULE Keywords ------------------------------
(***************************************************************************)
(* The words instruction_trie/main.c builds the assembler's trie from, as  *)
(* sequences of character codes, in the order it inserts them.             *)
(***************************************************************************)
EXTENDS Naturals, Sequences

Words ==
  LET dot == 46
      a == 97  b == 98  c == 99  d == 100  e == 101  f == 102  g == 103
      h == 104  i == 105  j == 106  k == 107  l == 108  n == 110  o == 111
      p == 112  q == 113  r == 114  s == 115  t == 116  u == 117  w == 119
      x == 120  y == 121
  IN <<
    <<a,d,d>>, <<s,u,b>>, <<x,o,r>>, <<o,r>>, <<a,n,d>>, <<s,l,l>>,
    <<s,r,l>>, <<s,r,a>>, <<s,l,t>>, <<s,l,t,u>>, <<a,d,d,i>>, <<x,o,r,i>>,
    <<o,r,i>>, <<a,n,d,i>>, <<s,l,l,i>>, <<s,r,l,i>>, <<s,r,a,i>>,
    <<s,l,t,i>>, <<s,l,t,i,u>>, <<l,b>>, <<l,h>>, <<l,w>>, <<l,b,u>>,
    <<l,h,u>>, <<s,b>>, <<s,h>>, <<s,w>>, <<b,e,q>>, <<b,n,e>>, <<b,l,t>>,
    <<b,g,e>>, <<b,l,t,u>>, <<b,g,e,u>>, <<j,a,l>>, <<j,a,l,r>>, <<l,u,i>>,
    <<a,u,i,p,c>>, <<e,c,a,l,l>>, <<e,b,r,e,a,k>>, <<dot,b,y,t,e>>,
    <<dot,h,a,l,f>>, <<dot,w,o,r,d>>, <<dot,d,w,o,r,d>>, <<dot,a,s,c,i,i>>,
    <<dot,s,p,a,c,e>>, <<dot,t,e,x,t>>, <<dot,d,a,t,a>> >>

\* Mutant: the immediate forms are inserted before the register forms.
ImmediateFirst == SubSeq(Words, 11, Len(Words)) \o SubSeq(Words, 1, 10)

Keywords == Words
==============================================================================
