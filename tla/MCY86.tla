-------------------------------- MODULE MCY86 --------------------------------
(***************************************************************************)
(* Y86 programs of three instructions, in words of one byte: %esp is set,  *)
(* then the instructions follow, then memory is zero, which is halt.  A    *)
(* function at 14 only returns; data at 20 are addresses.                  *)
(***************************************************************************)
EXTENDS Y86

Instructions == {
  <<48, 240, 3>>,     \* irmovl $3, %eax
  <<97, 64>>,         \* subl %esp, %eax
  <<96, 4>>,          \* addl %eax, %esp
  <<160, 79>>,        \* pushl %esp
  <<176, 15>>,        \* popl %eax
  <<176, 79>>,        \* popl %esp
  <<144>>,            \* ret
  <<128, 14>>,        \* call 14
  <<116, 14>>,        \* jne 14
  <<115, 14>>,        \* je 14
  <<112, 30>>,        \* jmp 30
  <<80, 4, 0>>,       \* mrmovl (%esp), %eax
  <<64, 4, 255>>,     \* rmmovl %eax, -1(%esp)
  <<64, 4, 245>>,     \* rmmovl %eax, -11(%esp)
  <<80, 15, 20>>,     \* mrmovl 20, %eax
  <<36, 64>>,         \* cmovne %esp, %eax
  <<192, 244, 100>>,  \* iaddl $100, %esp
  <<208>>,            \* leave
  <<0>> }             \* halt

MCSimulators == {<<"PIPE", {}>>, <<"PIPE", {"IADDL"}>>, <<"SEQ", {"IADDL", "LEAVE"}>>}

Load(code) == [a \in 0 .. MEM_SIZE - 1 |->
                 CASE a < Len(code) -> code[a + 1]
                   [] a = 14 -> 144
                   [] a = 20 -> 21
                   [] a = 21 -> 12
                   [] OTHER -> 0]

MCPrograms == {Load(<<48, 244, 20>> \o i \o j \o k) :
                 i \in Instructions, j \in Instructions, k \in Instructions}
==============================================================================
