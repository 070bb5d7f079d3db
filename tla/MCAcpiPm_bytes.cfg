CONSTANT Sizes = {1, 2}
SPECIFICATION Spec
PROPERTY IsRegisterFile
