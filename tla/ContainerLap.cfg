SPECIFICATION Spec
CONSTANTS
    RobSize = 2
    Regs <- MCRegs
    f0 = f0
    f16 = f16
    p1 = p1
    p2 = p2
    p3 = p3
    p4 = p4
    Phys <- MCPhys
    Ops = {"write"}
    MaxAge <- Lap
SYMMETRY MCSymmetry
INVARIANTS SlotsKept
