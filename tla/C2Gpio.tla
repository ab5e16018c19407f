------------------------------- MODULE C2Gpio -------------------------------
(***************************************************************************)
(* The StarrySky C2 GPIO driver.  A context holds a shadow of both         *)
(* registers, which are written and never read back; masks are sets of     *)
(* pins, and a pin in DDR is an input.                                     *)
(***************************************************************************)
CONSTANT Pins   \* C2_GPIO_PIN_MASK

Gpio == [initialized : BOOLEAN,
         output_shadow : SUBSET Pins, input_mask_shadow : SUBSET Pins,
         DR : SUBSET Pins, DDR : SUBSET Pins]

\* A zeroed context; every pin resets to an input.
NoGpio == [initialized |-> FALSE, output_shadow |-> {}, input_mask_shadow |-> {},
           DR |-> {}, DDR |-> Pins]

\* c2_gpio_init with an output mask and the initial output bits.
GpioInit(outputs, bits) ==
  [initialized |-> TRUE, output_shadow |-> bits, input_mask_shadow |-> Pins \ outputs,
   DR |-> bits, DDR |-> Pins \ outputs]

\* An empty mask writes no register.
SetDirection(g, mask, input) ==
  LET shadow == IF input THEN g.input_mask_shadow \union mask
                         ELSE g.input_mask_shadow \ mask
  IN  IF mask = {} THEN g
      ELSE [initialized |-> g.initialized, output_shadow |-> g.output_shadow,
            input_mask_shadow |-> shadow, DR |-> g.DR, DDR |-> shadow]

PutOutputs(g, mask, shadow) ==
  IF mask = {} THEN g
  ELSE [initialized |-> g.initialized, output_shadow |-> shadow,
        input_mask_shadow |-> g.input_mask_shadow, DR |-> shadow, DDR |-> g.DDR]

\* Mutant: the bits outside the mask are taken from the argument, too.
MutantWholePort(g, mask, bits) == PutOutputs(g, mask, bits)

WriteMask(g, mask, bits) ==
  PutOutputs(g, mask, (g.output_shadow \ mask) \union (bits \intersect mask))

SetMask(g, mask) == WriteMask(g, mask, mask)
ClearMask(g, mask) == WriteMask(g, mask, {})

ToggleMask(g, mask) ==
  PutOutputs(g, mask, (g.output_shadow \ mask) \union (mask \ g.output_shadow))

\* The pins that are driven high.
DrivenHigh(g) == g.DR \ g.DDR
=============================================================================
