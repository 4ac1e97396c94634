---- MODULE MCInterceptorArm32 ----
EXTENDS InterceptorArm32

Start == 3 * 2 ^ 23

AnyJob ==
  [kind |-> "hook", target |-> Start + 1, type |-> "PRE_POST", near |-> FALSE, program |-> << >>,
   missing |-> {}, place |-> "above", used |-> 0, zero |-> FALSE, replacement |-> 24577,
   call |-> [put |-> "nop"]]

\* Instructions of one halfword to fill the patch up: add r0, #1 and add r1, #2
Padded(program) == program \o <<\h3001, \h3102, \h3001, \h3102, \h3001>>

\* What does not depend on where it is
Plain == Padded(<<\hb410>>)                                    \* push {r4}
Programs ==
  {Padded(p) : p \in {
     <<\h4478>>, <<\h4408>>,                                   \* add r0, pc; add r0, r1
     <<\h4810>>, <<\hf8df, \h0040>>, <<\hf8df, \h9040>>, <<\hf85f, \h0010>>,  \* ldr literal
     <<\ha010>>, <<\hf2af, \h0010>>, <<\hf20f, \h0040>>,       \* adr
     <<\h3001, \h4810>>, <<\h3001, \hf8df, \h9040>>, <<\h3001, \h4478>>}}
Conditional ==
  {Padded(p) : p \in {
     <<\hb180>>, <<\hb980>>, <<\h3101, \hb180>>,               \* cbz, cbnz
     <<\h2800, \hd020>>, <<\h2800, \hd120>>, <<\hd020>>,       \* cmp, beq, bne
     <<\h2800, \hf000, \h8020>>, <<\hf000, \h8020>>}}          \* beq.w
\* Nothing of the patch follows them
Leaving ==
  {<<\h3101, \h3201, \h3101, \he020>>,                         \* b
   <<\h3101, \h3201, \hf000, \hb820>>,                         \* b.w
   <<\hb500, \h3101, \hf000, \hf820>>,                         \* push {lr}; bl
   <<\hb500, \h3101, \hf000, \he820>>}                         \* push {lr}; blx

Hooks ==
  LET on(p) == [AnyJob EXCEPT !.program = p]
  IN  UNION {
        {[on(p) EXCEPT !.type = t, !.near = n] :
           p \in Programs \cup Leaving, t \in {"PRE_POST", "REPLACE"}, n \in BOOLEAN},
        {[on(p) EXCEPT !.type = "REPLACE", !.near = n, !.zero = z] :
           p \in Conditional, n \in BOOLEAN, z \in BOOLEAN},
        {[on(p) EXCEPT !.zero = z] : p \in Conditional \ {Padded(<<\hd020>>), Padded(<<\hf000, \h8020>>)},
           z \in BOOLEAN},
        {[on(Plain) EXCEPT !.type = t, !.near = n, !.place = a, !.used = u] :
           t \in {"PRE_POST", "DBI"}, n \in {TRUE}, a \in {"above", "below"}, u \in 0..PageSlots},
        {[on(Plain) EXCEPT !.missing = s] : s \in SUBSET {"transfer", "invoke"}},
        {[on(Plain) EXCEPT !.type = IF s = "dbi" THEN "DBI" ELSE "PRE_POST", !.missing = {s}] :
           s \in {"enter", "dbi", "leave"}},
        {[on(Plain) EXCEPT !.target = Start + 3, !.type = t, !.near = n] :
           t \in {"PRE_POST", "REPLACE"}, n \in BOOLEAN},
        {[on(<<\h3001, \he1a0, \h3001, \he1a0>>) EXCEPT !.target = Start, !.near = n] : n \in BOOLEAN},
        {[on(Plain) EXCEPT !.type = "REPLACE", !.replacement = 24576]}}

\* Lower and upper halfwords of ARM instructions
Relocations ==
  {[AnyJob EXCEPT !.kind = "relocate", !.target = Start, !.program = p, !.zero = z] :
     p \in {<<\h0001, \he08f>>,                               \* add r0, pc, r1
            <<\h0040, \he59f>>, <<\h9040, \he51f>>,            \* ldr literal
            <<\h1040, \he28f>>, <<\h1040, \he24f>>,            \* adr
            <<\h0040, \hea00>>, <<\h0040, \h0a00>>, <<\h0040, \h1a00>>,  \* b, beq, bne
            <<\h0040, \heb00>>},                               \* bl
     z \in BOOLEAN}

Calls ==
  LET wide(puts, as, bs, vs) == [put : puts, a : as, b : bs, v : vs, index : {0, 1}]
      thumb == UNION {
        [put : {"nop"}],
        wide({"ldr_b_reg_address"}, {0, 7, 9, 14}, {0}, {4097}),
        wide({"ldr_reg_address"}, {15}, {0}, {4096, 4097}),
        wide({"ldr", "str"}, {1, 9}, {2, 10, 13}, {0, 4, 124, 128, 1024, -8}),
        wide({"ldr_index", "str_index"}, {1, 9}, {2, 13}, {4, -4}),
        wide({"add", "sub"}, {1}, {2}, {0, 7, -7, 8, 300, -300, 2049}),
        wide({"add", "sub"}, {1, 13}, {13}, {8, -8}),
        wide({"add"}, {1, 7}, {15}, {16}),
        wide({"sub_self"}, {1}, {0}, {3, -3}),
        wide({"add_reg"}, {1}, {2}, {3}),
        wide({"push", "pop"}, {3}, {0}, {0}),
        wide({"bx", "blx"}, {3}, {0}, {0}),
        wide({"b"}, {0}, {0}, {64, -64}),
        wide({"b_wide", "bl", "blx_imm"}, {0}, {0}, {64, -64, 2 ^ 22, -(2 ^ 22), 2 ^ 23, 2 ^ 24 - 4, -(2 ^ 24)})}
      arm == UNION {
        [put : {"nop", "bx_to_thumb"}],
        wide({"ldr_b_reg_address"}, {0, 14}, {0}, {4097}),
        wide({"ldr_reg_address"}, {15}, {0}, {4096, 4097}),
        wide({"ldr"}, {1}, {2, 13}, {0, 8, -8}), wide({"str"}, {1}, {2}, {0, 8}),
        wide({"ldr_index"}, {1}, {2}, {4, -4}),
        wide({"add", "sub"}, {1}, {2, 13, 15}, {0, 8, 255}),
        wide({"push", "pop"}, {3}, {0}, {0}), wide({"bx"}, {3}, {0}, {0}),
        wide({"b"}, {0}, {0}, {64, -64})}
      at(t, cs) == {[AnyJob EXCEPT !.kind = "call", !.target = t, !.call = c] : c \in cs}
  IN  at(Start + 1, thumb) \cup at(Start + 3, thumb) \cup at(Start, arm)

\* One hook of a target that is not at a word
Unaligned == {[AnyJob EXCEPT !.program = Plain, !.target = Start + 3]}

AllJobs == Hooks \cup Relocations \cup Calls
====
